---- MODULE Spec2Model ----
(***************************************************************************)
(* WhatsApp chat dashboard: the transcript parser (services/parser.py) and *)
(* the upload handler that stores its result (api/upload.py).              *)
(*                                                                         *)
(* Text is a sequence of code points.  A code point is written as a        *)
(* one-character string when it is ASCII and as "U+XXXX" otherwise.  The   *)
(* uploaded content is a sequence of units: a unit is either the           *)
(* well-formed UTF-8 encoding of one code point (written as that code      *)
(* point) or the byte "0xFF", which can occur in no UTF-8 encoding.        *)
(*                                                                         *)
(* Python's None is the empty sequence <<>> and a present value v is the   *)
(* one-element sequence <<v>>.                                              *)
(***************************************************************************)
EXTENDS Integers, Sequences, FiniteSets, TLC

VARIABLES filename, content, pc, chat_data, chat, db_participants, db_messages,
          response

vars == <<filename, content, pc, chat_data, chat, db_participants, db_messages,
          response>>

(***************************************************************************)
(* Code points                                                             *)
(***************************************************************************)

\* The printable ASCII characters, in code order, from 32 (space) to 126 (~);
\* the grave accent (96) is written "U+0060".
Ascii ==
  <<" ", "!", "\"", "#", "$", "%", "&", "'", "(", ")", "*", "+", ",", "-", ".", "/",
    "0", "1", "2", "3", "4", "5", "6", "7", "8", "9", ":", ";", "<", "=", ">", "?",
    "@", "A", "B", "C", "D", "E", "F", "G", "H", "I", "J", "K", "L", "M", "N", "O",
    "P", "Q", "R", "S", "T", "U", "V", "W", "X", "Y", "Z", "[", "\\", "]", "^", "_",
    "U+0060", "a", "b", "c", "d", "e", "f", "g", "h", "i", "j", "k", "l", "m", "n", "o",
    "p", "q", "r", "s", "t", "u", "v", "w", "x", "y", "z", "{", "|", "}", "~">>

\* The other code points of the model, with their numbers:
\*   U+202F narrow no-break space (written before AM/PM by recent exports),
\*   U+2764 heavy black heart, U+1F600 grinning face, U+1F914 thinking face,
\*   U+FFFD replacement character.
NonAscii ==
  [c \in {"\t", "\n", "\r", "U+202F", "U+2764", "U+1F600", "U+1F914", "U+FFFD"} |->
     CASE c = "\t" -> 9
       [] c = "\n" -> 10
       [] c = "\r" -> 13
       [] c = "U+202F" -> 8239
       [] c = "U+2764" -> 10084
       [] c = "U+1F600" -> 128512
       [] c = "U+1F914" -> 129300
       [] c = "U+FFFD" -> 65533]

Chars == {Ascii[i] : i \in 1..Len(Ascii)} \cup DOMAIN NonAscii

\* ord(c)
Ord ==
  [c \in Chars |->
     IF c \in DOMAIN NonAscii THEN NonAscii[c]
     ELSE 31 + (CHOOSE i \in 1..Len(Ascii) : Ascii[i] = c)]

\* The byte that is invalid wherever it occurs in UTF-8.
BadByte == "0xFF"

IsDigit(c) == c \in Chars /\ Ord[c] >= 48 /\ Ord[c] <= 57

\* str.isspace / \s for the code points of the model
IsSpace(c) == c \in {" ", "\t", "\n", "\r", "U+202F"}

IsUpper(c) == c \in Chars /\ Ord[c] >= 65 /\ Ord[c] <= 90

IsLower(c) == c \in Chars /\ Ord[c] >= 97 /\ Ord[c] <= 122

\* str.lower on one code point
LowerChar ==
  [c \in Chars |-> IF IsUpper(c) THEN Ascii[Ord[c] + 32 - 31] ELSE c]

\* str.lower
Lower(s) == [i \in 1..Len(s) |-> LowerChar[s[i]]]

\* s[i], or "" when i is outside s
At(s, i) == IF i >= 1 /\ i <= Len(s) THEN s[i] ELSE ""

\* sub in s
Contains(s, sub) ==
  \E i \in 0..(Len(s) - Len(sub)) : SubSeq(s, i + 1, i + Len(sub)) = sub

\* str.strip
Strip(s) ==
  LET keep == {i \in 1..Len(s) : ~IsSpace(s[i])}
  IN  IF keep = {} THEN <<>>
      ELSE LET lo == CHOOSE i \in keep : \A j \in keep : i <= j
               hi == CHOOSE i \in keep : \A j \in keep : i >= j
           IN  SubSeq(s, lo, hi)

\* s.split(sep) for a one-character separator
RECURSIVE SplitOn(_, _)
SplitOn(s, sep) ==
  LET at == {i \in 1..Len(s) : s[i] = sep}
  IN  IF at = {} THEN <<s>>
      ELSE LET k == CHOOSE i \in at : \A j \in at : i <= j
           IN  <<SubSeq(s, 1, k - 1)>> \o SplitOn(SubSeq(s, k + 1, Len(s)), sep)

\* s.split(): the maximal runs of non-whitespace
RECURSIVE SplitWhitespace(_)
SplitWhitespace(s) ==
  LET t == Strip(s)
      ws == {i \in 1..Len(t) : IsSpace(t[i])}
  IN  IF t = <<>> THEN <<>>
      ELSE IF ws = {} THEN <<t>>
      ELSE LET k == CHOOSE i \in ws : \A j \in ws : i <= j
           IN  <<SubSeq(t, 1, k - 1)>> \o SplitWhitespace(SubSeq(t, k + 1, Len(t)))

\* int() of the n digits s[i..i+n-1]
RECURSIVE Num(_, _, _)
Num(s, i, n) ==
  IF n = 0 THEN 0 ELSE 10 * Num(s, i, n - 1) + (Ord[s[i + n - 1]] - 48)

(***************************************************************************)
(* Regular expressions (module re).  A pattern is a sequence of items:     *)
(*   [t |-> "cls", cls, min, max]  a character of the set cls, repeated    *)
(*                                 min..max times, greedily (max = -1:     *)
(*                                 unbounded)                              *)
(*   [t |-> "alt", alts]           the first of the patterns alts that     *)
(*                                 lets the rest match                     *)
(*   [t |-> "open", g], [t |-> "close", g]   the bounds of group g         *)
(* A match is <<groups>>, a function from the group names to <<first,      *)
(* last>> indices, with "end" |-> the index of the last matched character; *)
(* no match is <<>>.                                                       *)
(***************************************************************************)

Digits == {c \in Chars : IsDigit(c)}

Spaces == {c \in Chars : IsSpace(c)}

Lit(c) == [t |-> "cls", cls |-> {c}, min |-> 1, max |-> 1]

Rep(cls, min, max) == [t |-> "cls", cls |-> cls, min |-> min, max |-> max]

Open(g) == [t |-> "open", g |-> g]

Close(g) == [t |-> "close", g |-> g]

Alt(alts) == [t |-> "alt", alts |-> alts]

\* The characters lo..hi, a class such as [0-2]
Range(lo, hi) == {c \in Chars : Ord[c] >= Ord[lo] /\ Ord[c] <= Ord[hi]}

\* The result of the candidate of least rank that has one: cands is a set
\* of [ord, r], with r a result or <<>>
PickFirst(cands) ==
  LET ok == {c \in cands : c.r # <<>>}
  IN  IF ok = {} THEN <<>> ELSE (CHOOSE c \in ok : \A d \in ok : c.ord <= d.ord).r

\* The number of characters of s[i..] that are in cls, at most max
RunLength(s, i, cls, max) ==
  LET fit == {n \in 0..max : \A j \in 0..(n - 1) : At(s, i + j) \in cls}
  IN  CHOOSE n \in fit : \A l \in fit : l <= n

RECURSIVE ReMatch(_, _, _, _, _)
\* pat[k..] matched at s[i..], with the groups caps opened so far.  A
\* repetition takes the longest run that lets the rest match, an alternation
\* the first alternative that does.
ReMatch(s, i, pat, k, caps) ==
  IF k > Len(pat) THEN <<("end" :> i - 1) @@ caps>>
  ELSE
    LET it == pat[k]
    IN  CASE it.t = "cls" /\ it.min = it.max ->
               IF RunLength(s, i, it.cls, it.max) = it.max
               THEN ReMatch(s, i + it.max, pat, k + 1, caps)
               ELSE <<>>
          [] it.t = "cls" /\ it.min # it.max ->
               PickFirst({[ord |-> 0 - n, r |-> ReMatch(s, i + n, pat, k + 1, caps)] :
                          n \in it.min..RunLength(s, i, it.cls,
                                                  IF it.max = -1 THEN Len(s) ELSE it.max)})
          [] it.t = "alt" ->
               PickFirst({[ord |-> j,
                           r |-> ReMatch(s, i, it.alts[j] \o SubSeq(pat, k + 1, Len(pat)),
                                         1, caps)] :
                          j \in 1..Len(it.alts)})
          [] it.t = "open" -> ReMatch(s, i, pat, k + 1, (it.g :> <<i, i - 1>>) @@ caps)
          [] it.t = "close" ->
               ReMatch(s, i, pat, k + 1, (it.g :> <<caps[it.g][1], i - 1>>) @@ caps)

\* re.match(pat, s)
re_match(pat, s) == ReMatch(s, 1, pat, 1, <<>>)

\* re.search(pat, s) is not None
re_search(pat, s) == \E i \in 1..(Len(s) + 1) : ReMatch(s, i, pat, 1, <<>>) # <<>>

\* match.group(g)
Group(s, m, g) == SubSeq(s, m[g][1], m[g][2])

\* \d{1,2}/\d{1,2}/\d{2,4}
SlashDate ==
  <<Rep(Digits, 1, 2), Lit("/"), Rep(Digits, 1, 2), Lit("/"), Rep(Digits, 2, 4)>>

\* WhatsAppParser.date_patterns:
\*   \[(\d{1,2}/\d{1,2}/\d{2,4}),?\s*(\d{1,2}:\d{2}:\d{2}?\s*(?:AM|PM)?)\]
\*   \[(\d{1,2}/\d{1,2}/\d{2,4}),?\s*(\d{1,2}:\d{2})\]
\*   \[(\d{4}-\d{2}-\d{2})\s*(\d{2}:\d{2}:\d{2})\]
\* (\d{2}? is a lazy "exactly two", the same as \d{2})
date_patterns ==
  << <<Lit("["), Open("1")>> \o SlashDate \o
     <<Close("1"), Rep({","}, 0, 1), Rep(Spaces, 0, -1),
       Open("2"), Rep(Digits, 1, 2), Lit(":"), Rep(Digits, 2, 2), Lit(":"), Rep(Digits, 2, 2),
       Rep(Spaces, 0, -1), Alt(<< <<Lit("A"), Lit("M")>>, <<Lit("P"), Lit("M")>>, <<>> >>),
       Close("2"), Lit("]")>>,
     <<Lit("["), Open("1")>> \o SlashDate \o
     <<Close("1"), Rep({","}, 0, 1), Rep(Spaces, 0, -1),
       Open("2"), Rep(Digits, 1, 2), Lit(":"), Rep(Digits, 2, 2), Close("2"), Lit("]")>>,
     <<Lit("["), Open("1"), Rep(Digits, 4, 4), Lit("-"), Rep(Digits, 2, 2), Lit("-"),
       Rep(Digits, 2, 2), Close("1"), Rep(Spaces, 0, -1),
       Open("2"), Rep(Digits, 2, 2), Lit(":"), Rep(Digits, 2, 2), Lit(":"), Rep(Digits, 2, 2),
       Close("2"), Lit("]")>> >>

(***************************************************************************)
(* datetime.strptime for the directives of _parse_timestamp's formats.     *)
(* A format is a sequence of directives ("%m"), literal characters and     *)
(* spaces.  Python compiles it to a regular expression (a directive        *)
(* becomes a named group, a space becomes \s+), matches it at the start of *)
(* the string, rejects unconverted data after the match, and builds the    *)
(* datetime, which rejects a field out of range.  A timestamp is           *)
(* <<year, month, day, hour, minute, second>>.                             *)
(***************************************************************************)

\* The regular expression of a directive (_strptime.TimeRE):
\*   %d  3[0-1]|[1-2]\d|0[1-9]|[1-9]| [1-9]     %H  2[0-3]|[0-1]\d|\d
\*   %I  1[0-2]|0[1-9]|[1-9]                    %m  1[0-2]|0[1-9]|[1-9]
\*   %M  [0-5]\d|\d                             %S  6[0-1]|[0-5]\d|\d
\*   %y  \d\d          %Y  \d\d\d\d             %p  am|pm, ignoring case
DirectiveRegex(dir) ==
  LET C(lo, hi) == Rep(Range(lo, hi), 1, 1)
      D == Rep(Digits, 1, 1)
  IN  CASE dir = "%d" -> Alt(<< <<Lit("3"), C("0", "1")>>, <<C("1", "2"), D>>,
                                <<Lit("0"), C("1", "9")>>, <<C("1", "9")>>,
                                <<Lit(" "), C("1", "9")>> >>)
        [] dir = "%H" -> Alt(<< <<Lit("2"), C("0", "3")>>, <<C("0", "1"), D>>, <<D>> >>)
        [] dir \in {"%I", "%m"} ->
             Alt(<< <<Lit("1"), C("0", "2")>>, <<Lit("0"), C("1", "9")>>, <<C("1", "9")>> >>)
        [] dir = "%M" -> Alt(<< <<C("0", "5"), D>>, <<D>> >>)
        [] dir = "%S" -> Alt(<< <<Lit("6"), C("0", "1")>>, <<C("0", "5"), D>>, <<D>> >>)
        [] dir = "%y" -> Rep(Digits, 2, 2)
        [] dir = "%Y" -> Rep(Digits, 4, 4)
        [] dir = "%p" -> Alt(<< <<Rep({"a", "A"}, 1, 1), Rep({"m", "M"}, 1, 1)>>,
                                <<Rep({"p", "P"}, 1, 1), Rep({"m", "M"}, 1, 1)>> >>)

Directives == {"%d", "%H", "%I", "%m", "%M", "%S", "%y", "%Y", "%p"}

\* The regular expression of fmt[k..]
RECURSIVE FormatRegex(_, _)
FormatRegex(fmt, k) ==
  IF k > Len(fmt) THEN <<>>
  ELSE (IF fmt[k] \in Directives
        THEN <<Open(fmt[k]), DirectiveRegex(fmt[k]), Close(fmt[k])>>
        ELSE IF fmt[k] = " " THEN <<Rep(Spaces, 1, -1)>>
        ELSE <<Lit(fmt[k])>>)
       \o FormatRegex(fmt, k + 1)

IsLeap(y) == y % 4 = 0 /\ (y % 100 # 0 \/ y % 400 = 0)

DaysInMonth(y, m) ==
  IF m = 2 THEN (IF IsLeap(y) THEN 29 ELSE 28)
  ELSE IF m \in {4, 6, 9, 11} THEN 30 ELSE 31

\* int() of a group; %d's " 5" reads as 5
NumOf(g) == Num(g, 1, Len(g))

IntOf(s, m, dir) == NumOf(Strip(Group(s, m, dir)))

\* %y: 69..99 are 1969..1999, 00..68 are 2000..2068
CenturyOf(y) == IF y <= 68 THEN 2000 + y ELSE 1900 + y

\* %I with %p: 12 AM is 0, 12 PM is 12
HourOf(hour12, pm) ==
  IF pm THEN (IF hour12 = 12 THEN 12 ELSE hour12 + 12)
  ELSE (IF hour12 = 12 THEN 0 ELSE hour12)

\* The fields of the datetime, from the groups m of the match
Fields(s, m) ==
  [year |-> IF "%Y" \in DOMAIN m THEN IntOf(s, m, "%Y") ELSE CenturyOf(IntOf(s, m, "%y")),
   month |-> IntOf(s, m, "%m"),
   day |-> IntOf(s, m, "%d"),
   hour |-> IF "%H" \in DOMAIN m THEN IntOf(s, m, "%H")
            ELSE HourOf(IntOf(s, m, "%I"), Lower(Group(s, m, "%p")) = <<"p", "m">>),
   minute |-> IntOf(s, m, "%M"),
   second |-> IF "%S" \in DOMAIN m THEN IntOf(s, m, "%S") ELSE 0]

\* datetime(year, month, day, hour, minute, second), or <<>> for ValueError
Datetime(f) ==
  IF /\ f.year >= 1
     /\ f.day <= DaysInMonth(f.year, f.month)
     /\ f.second <= 59
  THEN <<(<<f.year, f.month, f.day, f.hour, f.minute, f.second>>)>>
  ELSE <<>>

\* What strptime makes of the match found: no match and unconverted data
\* after the match are ValueErrors
DatetimeOfMatch(s, found) ==
  IF found = <<>> THEN <<>>
  ELSE IF found[1]["end"] # Len(s) THEN <<>>
  ELSE Datetime(Fields(s, found[1]))

\* datetime.strptime(s, fmt): <<timestamp>>, or <<>> for ValueError
Strptime(s, fmt) == DatetimeOfMatch(s, re_match(FormatRegex(fmt, 1), s))

\* The formats with the first seconds-omitted format moved before its
\* seconds-inclusive counterpart
formats_OmittedFirst ==
  << <<"%m", "/", "%d", "/", "%Y", ",", " ", "%I", ":", "%M", " ", "%p">>,
     <<"%m", "/", "%d", "/", "%Y", ",", " ", "%I", ":", "%M", ":", "%S", " ", "%p">>,
     <<"%m", "/", "%d", "/", "%y", ",", " ", "%I", ":", "%M", ":", "%S", " ", "%p">>,
     <<"%m", "/", "%d", "/", "%y", ",", " ", "%I", ":", "%M", " ", "%p">>,
     <<"%d", "/", "%m", "/", "%Y", ",", " ", "%H", ":", "%M", ":", "%S">>,
     <<"%d", "/", "%m", "/", "%Y", ",", " ", "%H", ":", "%M">>,
     <<"%Y", "-", "%m", "-", "%d", " ", "%H", ":", "%M", ":", "%S">>,
     <<"%m", "/", "%d", "/", "%y", " ", "%I", ":", "%M", ":", "%S", " ", "%p">>,
     <<"%m", "/", "%d", "/", "%Y", " ", "%I", ":", "%M", ":", "%S", " ", "%p">>,
     <<"%m", "/", "%d", "/", "%y", " ", "%I", ":", "%M", " ", "%p">>,
     <<"%m", "/", "%d", "/", "%Y", " ", "%I", ":", "%M", " ", "%p">> >>

\* The formats of _parse_timestamp, in its order
formats ==
  << <<"%m", "/", "%d", "/", "%Y", ",", " ", "%I", ":", "%M", ":", "%S", " ", "%p">>,
     <<"%m", "/", "%d", "/", "%Y", ",", " ", "%I", ":", "%M", " ", "%p">>,
     <<"%m", "/", "%d", "/", "%y", ",", " ", "%I", ":", "%M", ":", "%S", " ", "%p">>,
     <<"%m", "/", "%d", "/", "%y", ",", " ", "%I", ":", "%M", " ", "%p">>,
     <<"%d", "/", "%m", "/", "%Y", ",", " ", "%H", ":", "%M", ":", "%S">>,
     <<"%d", "/", "%m", "/", "%Y", ",", " ", "%H", ":", "%M">>,
     <<"%Y", "-", "%m", "-", "%d", " ", "%H", ":", "%M", ":", "%S">>,
     <<"%m", "/", "%d", "/", "%y", " ", "%I", ":", "%M", ":", "%S", " ", "%p">>,
     <<"%m", "/", "%d", "/", "%Y", " ", "%I", ":", "%M", ":", "%S", " ", "%p">>,
     <<"%m", "/", "%d", "/", "%y", " ", "%I", ":", "%M", " ", "%p">>,
     <<"%m", "/", "%d", "/", "%Y", " ", "%I", ":", "%M", " ", "%p">> >>

\* WhatsAppParser._parse_timestamp
\*   for fmt in formats: try: return strptime(...) except ValueError: continue
\*   return None
parse_timestamp(timestamp_str) ==
  PickFirst({[ord |-> k, r |-> Strptime(timestamp_str, formats[k])] : k \in 1..Len(formats)})

(***************************************************************************)
(* The message classifier                                                  *)
(***************************************************************************)

\* WhatsAppParser.system_messages, as written in the list:
\*   'Messages and calls are end-to-end encrypted', 'created group', 'added',
\*   'removed', 'left', 'changed the group description',
\*   'changed this group\'s icon'
system_messages ==
  << <<"M", "e", "s", "s", "a", "g", "e", "s", " ", "a", "n", "d", " ", "c", "a", "l",
       "l", "s", " ", "a", "r", "e", " ", "e", "n", "d", "-", "t", "o", "-", "e", "n",
       "d", " ", "e", "n", "c", "r", "y", "p", "t", "e", "d">>,
     <<"c", "r", "e", "a", "t", "e", "d", " ", "g", "r", "o", "u", "p">>,
     <<"a", "d", "d", "e", "d">>,
     <<"r", "e", "m", "o", "v", "e", "d">>,
     <<"l", "e", "f", "t">>,
     <<"c", "h", "a", "n", "g", "e", "d", " ", "t", "h", "e", " ", "g", "r", "o", "u",
       "p", " ", "d", "e", "s", "c", "r", "i", "p", "t", "i", "o", "n">>,
     <<"c", "h", "a", "n", "g", "e", "d", " ", "t", "h", "i", "s", " ", "g", "r", "o",
       "u", "p", "'", "s", " ", "i", "c", "o", "n">> >>

MediaOmitted == <<"<", "M", "e", "d", "i", "a", " ", "o", "m", "i", "t", "t", "e", "d", ">">>

ImageOmitted == <<"i", "m", "a", "g", "e", " ", "o", "m", "i", "t", "t", "e", "d">>

MessageDeleted ==
  <<"T", "h", "i", "s", " ", "m", "e", "s", "s", "a", "g", "e", " ", "w", "a", "s",
    " ", "d", "e", "l", "e", "t", "e", "d">>

\* any(sys_msg in content.lower() for sys_msg in self.system_messages)
IsSystemMessage(message_content) ==
  \E k \in 1..Len(system_messages) : Contains(Lower(message_content), system_messages[k])

\* WhatsAppParser._determine_message_type
determine_message_type(message_content) ==
  IF IsSystemMessage(message_content) THEN "system"
  ELSE IF \/ Contains(message_content, MediaOmitted)
          \/ Contains(Lower(message_content), ImageOmitted) THEN "media"
  ELSE IF Contains(message_content, MessageDeleted) THEN "deleted"
  ELSE "text"

\* The ranges of emoji_pattern, as pairs of code point numbers:
\*   1F600-1F64F, 1F300-1F5FF, 1F680-1F6FF, 1F1E0-1F1FF, 2702-27B0, 24C2-1F251
emoji_pattern ==
  << <<128512, 128591>>, <<127744, 128511>>, <<128640, 128767>>,
     <<127462, 127487>>, <<9986, 10160>>, <<9410, 127569>> >>

\* WhatsAppParser._has_emoji
has_emoji(text) ==
  \E i \in 1..Len(text) : \E k \in 1..Len(emoji_pattern) :
     Ord[text[i]] >= emoji_pattern[k][1] /\ Ord[text[i]] <= emoji_pattern[k][2]

\* link_pattern:
\*   http[s]?://(?:[a-zA-Z]|[0-9]|[$-_@.&+]|[!*\\(\\),]|(?:%[0-9a-fA-F][0-9a-fA-F]))+
\* $-_ is the range from "$" to "_"; every alternative but the last is one
\* character, and "%" is in $-_, so the repeated group is one character of
\* the union of the classes.
link_pattern ==
  <<Lit("h"), Lit("t"), Lit("t"), Lit("p"), Rep({"s"}, 0, 1), Lit(":"), Lit("/"), Lit("/"),
    Rep(Range("a", "z") \cup Range("A", "Z") \cup Range("0", "9")
        \cup Range("$", "_") \cup {"@", ".", "&", "+"}
        \cup {"!", "*", "\\", "(", ")", ","}, 1, -1)>>

\* WhatsAppParser._has_link
has_link(text) == re_search(link_pattern, text)

(***************************************************************************)
(* The line classifier and the transcript parser                           *)
(***************************************************************************)

\* MessageData with word_count = len(message_content.split(' '))
MessageData_SplitOnSpace(timestamp, participant, message_content) ==
  IF timestamp = <<>> THEN <<>>
  ELSE IF IsSystemMessage(message_content) THEN <<>>
  ELSE <<[timestamp |-> timestamp[1],
          participant |-> participant,
          content |-> message_content,
          message_type |-> determine_message_type(message_content),
          char_count |-> Len(message_content),
          word_count |-> Len(SplitOn(message_content, " ")),
          has_emoji |-> has_emoji(message_content),
          has_link |-> has_link(message_content)]>>

\* if not timestamp: continue; if a system phrase: continue; return {...}
\* (<<>> stands for "continue")
MessageData(timestamp, participant, message_content) ==
  IF timestamp = <<>> THEN <<>>
  ELSE IF IsSystemMessage(message_content) THEN <<>>
  ELSE <<[timestamp |-> timestamp[1],
          participant |-> participant,
          content |-> message_content,
          message_type |-> determine_message_type(message_content),
          char_count |-> Len(message_content),
          word_count |-> Len(SplitWhitespace(message_content)),
          has_emoji |-> has_emoji(message_content),
          has_link |-> has_link(message_content)]>>

\* The split of remaining on its last colon
SplitRemaining_LastColon(timestamp_str, remaining) ==
  IF \A i \in 1..Len(remaining) : remaining[i] # ":" THEN <<>>
  ELSE
    LET last_colon == CHOOSE i \in 1..Len(remaining) :
                        remaining[i] = ":" /\ \A j \in (i + 1)..Len(remaining) : remaining[j] # ":"
    IN  MessageData(parse_timestamp(timestamp_str),
                    Strip(SubSeq(remaining, 1, last_colon - 1)),
                    Strip(SubSeq(remaining, last_colon + 1, Len(remaining))))

\* if ':' in remaining: the participant, the content and the timestamp
SplitRemaining(timestamp_str, remaining) ==
  IF \A i \in 1..Len(remaining) : remaining[i] # ":" THEN <<>>
  ELSE
    LET first_colon == CHOOSE i \in 1..Len(remaining) :
                         remaining[i] = ":" /\ \A j \in 1..(i - 1) : remaining[j] # ":"
    IN  MessageData(parse_timestamp(timestamp_str),
                    Strip(SubSeq(remaining, 1, first_colon - 1)),
                    Strip(SubSeq(remaining, first_colon + 1, Len(remaining))))

\* if match: timestamp_str = f"{date_str} {time_str}";
\*           remaining = line[match.end():].strip()
MatchedLine(line, match) ==
  IF match = <<>> THEN <<>>
  ELSE SplitRemaining(Group(line, match[1], "1") \o <<" ">> \o Group(line, match[1], "2"),
                      Strip(SubSeq(line, match[1]["end"] + 1, Len(line))))

\* WhatsAppParser._parse_message_line: the body of the loop returns for the
\* first pattern that matches a line with a colon, a parseable timestamp and
\* no system phrase; else None
parse_message_line(line) ==
  PickFirst({[ord |-> k, r |-> MatchedLine(line, re_match(date_patterns[k], line))] :
             k \in 1..Len(date_patterns)})

\* content.decode('utf-8'): an invalid byte raises UnicodeDecodeError
Decode_Strict(bytes) ==
  IF \E i \in 1..Len(bytes) : bytes[i] = BadByte
  THEN [raised |-> TRUE, text |-> <<>>]
  ELSE [raised |-> FALSE, text |-> bytes]

\* content.decode('utf-8', errors='replace'): an invalid byte becomes U+FFFD
Decode_Replace(bytes) ==
  [raised |-> FALSE,
   text |-> [i \in 1..Len(bytes) |-> IF bytes[i] = BadByte THEN "U+FFFD" ELSE bytes[i]]]

\* content.decode('utf-8', errors='ignore'): the invalid bytes are dropped.
\* The result is [raised, text]; with errors='ignore' nothing is raised.
Decode(bytes) ==
  [raised |-> FALSE, text |-> SelectSeq(bytes, LAMBDA u : u # BadByte)]

\* a < b for timestamps (the comparison of datetime)
TupleLess(a, b) ==
  \E i \in 1..Len(a) : a[i] < b[i] /\ \A j \in 1..(i - 1) : a[j] = b[j]

\* date_range[0] if date_range else None
MinOf_First(date_range) ==
  IF date_range = <<>> THEN <<>> ELSE <<date_range[1]>>

\* min(date_range) if date_range else None
MinOf(date_range) ==
  IF date_range = <<>> THEN <<>>
  ELSE <<CHOOSE t \in {date_range[i] : i \in 1..Len(date_range)} :
           \A i \in 1..Len(date_range) : ~TupleLess(date_range[i], t)>>

\* max(date_range) if date_range else None
MaxOf(date_range) ==
  IF date_range = <<>> THEN <<>>
  ELSE <<CHOOSE t \in {date_range[i] : i \in 1..Len(date_range)} :
           \A i \in 1..Len(date_range) : ~TupleLess(t, date_range[i])>>

\* The loop body that takes a line without a bracket for a message of its
\* own, of no participant
ParsedLine_Unattributed(line) ==
  IF line = <<>> THEN <<>>
  ELSE IF line[1] # "[" THEN MessageData(<<(<<2024, 1, 1, 0, 0, 0>>)>>, <<>>, line)
  ELSE parse_message_line(line)

\* line = line.strip(); if not line: continue; self._parse_message_line(line)
ParsedLine(line) == IF line = <<>> THEN <<>> ELSE parse_message_line(line)

\* The loop of parse_chat over lines[k..], with the three accumulators;
\* participants is a Python set.
RECURSIVE ParseLines(_, _, _, _, _), Accumulate(_, _, _, _, _, _)
ParseLines(lines, k, messages, participants, date_range) ==
  IF k > Len(lines)
  THEN [messages |-> messages, participants |-> participants, date_range |-> date_range]
  ELSE Accumulate(lines, k, messages, participants, date_range, ParsedLine(Strip(lines[k])))

\* Accumulate without participants.add
Accumulate_Unlisted(lines, k, messages, participants, date_range, message_data) ==
  IF message_data = <<>>
  THEN ParseLines(lines, k + 1, messages, participants, date_range)
  ELSE ParseLines(lines, k + 1,
                  Append(messages, message_data[1]),
                  participants,
                  Append(date_range, message_data[1].timestamp))

\* if message_data: messages.append, participants.add, date_range.append
Accumulate(lines, k, messages, participants, date_range, message_data) ==
  IF message_data = <<>>
  THEN ParseLines(lines, k + 1, messages, participants, date_range)
  ELSE ParseLines(lines, k + 1,
                  Append(messages, message_data[1]),
                  participants \cup {message_data[1].participant},
                  Append(date_range, message_data[1].timestamp))

\* ChatData with sorted(messages, key=lambda m: m['timestamp'])
ChatData_SortedByTimestamp(acc) ==
  [raised |-> FALSE,
   messages |-> SortSeq(acc.messages, LAMBDA a, b : TupleLess(a.timestamp, b.timestamp)),
   participants |-> acc.participants,
   date_range_start |-> MinOf(acc.date_range),
   date_range_end |-> MaxOf(acc.date_range)]

\* The dictionary parse_chat returns (the title is not modelled)
ChatData(acc) ==
  [raised |-> FALSE,
   messages |-> acc.messages,
   participants |-> acc.participants,
   date_range_start |-> MinOf(acc.date_range),
   date_range_end |-> MaxOf(acc.date_range)]

\* parse_chat after the decoding
ParseDecoded(decoded) ==
  IF decoded.raised THEN [raised |-> TRUE]
  ELSE ChatData(ParseLines(SplitOn(decoded.text, "\n"), 1, <<>>, {}, <<>>))

\* WhatsAppParser.parse_chat: [raised |-> TRUE] when an exception escapes,
\* else the returned dictionary
parse_chat(bytes) == ParseDecoded(Decode(bytes))

(***************************************************************************)
(* The upload handler (api/upload.py) and the stored rows                  *)
(***************************************************************************)

\* file.filename.endswith(('.txt', '.zip'))
EndsWith(s, suffix) ==
  Len(s) >= Len(suffix) /\ SubSeq(s, Len(s) - Len(suffix) + 1, Len(s)) = suffix

ValidFileType(name) ==
  EndsWith(name, <<".", "t", "x", "t">>) \/ EndsWith(name, <<".", "z", "i", "p">>)

\* The Chat row built in upload_chat_file from the parsed transcript
ChatRow(bytes, data) ==
  [file_size |-> Len(bytes),
   participant_count |-> Cardinality(data.participants),
   message_count |-> Len(data.messages),
   date_range_start |-> data.date_range_start,
   date_range_end |-> data.date_range_end]

\* The Participant rows with the column default of message_count
ParticipantRows_DefaultCount(data) ==
  {[id |-> name, name |-> name, message_count |-> 0] : name \in data.participants}

\* The Participant rows of store_chat_data; a row's id is its name, which
\* is unique because the names come from a set.
ParticipantRows(data) ==
  {[id |-> name,
    name |-> name,
    message_count |->
      Cardinality({i \in 1..Len(data.messages) : data.messages[i].participant = name})] :
   name \in data.participants}

\* The Message row store_chat_data builds for one parsed message;
\* participant_map is the name -> id dictionary built with the participants
MessageRow(msg_data, participant_map) ==
  [participant_id |-> participant_map[msg_data.participant],
   content |-> msg_data.content,
   timestamp |-> msg_data.timestamp,
   message_type |-> msg_data.message_type,
   char_count |-> msg_data.char_count,
   word_count |-> msg_data.word_count,
   has_emoji |-> msg_data.has_emoji,
   has_link |-> msg_data.has_link]

\* The Message rows of store_chat_data, in insertion order
MessageRows(data) ==
  LET participant_map == [name \in data.participants |-> name]
  IN  [i \in 1..Len(data.messages) |-> MessageRow(data.messages[i], participant_map)]

(***************************************************************************)
(* The analytics (services/analyzer.py, services/analyzer_extended.py,     *)
(* services/analyzer_clean.py) over the stored rows of the chat            *)
(***************************************************************************)

\* The days of the months of year y before month m
RECURSIVE DaysBeforeMonth(_, _)
DaysBeforeMonth(y, m) ==
  IF m = 1 THEN 0 ELSE DaysBeforeMonth(y, m - 1) + DaysInMonth(y, m - 1)

\* The proleptic Gregorian ordinal of the date of t (0001-01-01 is day 1)
Ordinal(t) ==
  365 * (t[1] - 1) + (t[1] - 1) \div 4 - (t[1] - 1) \div 100 + (t[1] - 1) \div 400
  + DaysBeforeMonth(t[1], t[2]) + t[3]

\* The seconds from midnight to the time of t
SecondOfDay(t) == t[4] * 3600 + t[5] * 60 + t[6]

\* (b - a).total_seconds()
TotalSeconds(a, b) == (Ordinal(b) - Ordinal(a)) * 86400 + SecondOfDay(b) - SecondOfDay(a)

\* The days from the date of a to the date of b, whatever their times
TimedeltaDays_CalendarDays(a, b) == Ordinal(b) - Ordinal(a)

\* (b - a).days
TimedeltaDays(a, b) == TotalSeconds(a, b) \div 86400

\* datetime.weekday(): 0 = Monday .. 6 = Sunday
StrftimeW_MondayFirst(t) == (Ordinal(t) + 6) % 7

\* strftime('%w', t): the day of the week, 0 = Sunday .. 6 = Saturday
StrftimeW(t) == Ordinal(t) % 7

\* strftime('%H', t)
StrftimeH(t) == t[4]

\* The day of the year of t, from 0
YearDay(t) == DaysBeforeMonth(t[1], t[2]) + t[3] - 1

\* func.date(t): the calendar date
DateKey(t) == <<t[1], t[2], t[3]>>

\* strftime('%Y-W%U', t): the year and the week of the year, weeks from Sunday
WeekKeySunday(t) == <<t[1], (YearDay(t) + 7 - StrftimeW(t)) \div 7>>

\* strftime('%Y-W%W', t): the year and the week of the year, weeks from Monday
WeekKeyMonday(t) == <<t[1], (YearDay(t) + 7 - ((StrftimeW(t) + 6) % 7)) \div 7>>

\* strftime('%Y-%m', t)
MonthKey(t) == <<t[1], t[2]>>

\* The key of a timestamp for a time_group
KeyOf(time_group, t) ==
  CASE time_group = "date" -> DateKey(t)
    [] time_group = "%Y-W%U" -> WeekKeySunday(t)
    [] time_group = "%Y-W%W" -> WeekKeyMonday(t)
    [] time_group = "%Y-%m" -> MonthKey(t)

\* The sequences that list the elements of the set S once each: the orders
\* in which a query without ORDER BY may return its rows
Listings(S) ==
  {f \in [1..Cardinality(S) -> S] : \A i, j \in 1..Cardinality(S) : i # j => f[i] # f[j]}

\* The orders of the rows numbered in left that put no row before a row of
\* an earlier timestamp
RECURSIVE TimestampOrders(_, _)
TimestampOrders(messages, left) ==
  IF left = {} THEN {<<>>}
  ELSE UNION {{<<messages[i]>> \o rest : rest \in TimestampOrders(messages, left \ {i})} :
              i \in {j \in left : \A k \in left :
                        ~TupleLess(messages[k].timestamp, messages[j].timestamp)}}

\* The orders in which ORDER BY Message.timestamp may return the rows: rows
\* of equal timestamp come in any order
OrderedByTimestamp(messages) == TimestampOrders(messages, 1..Len(messages))

\* GroupCount with count(DISTINCT timestamp)
GroupCount_DistinctTimestamps(messages, time_group) ==
  LET keys == {KeyOf(time_group, messages[i].timestamp) : i \in 1..Len(messages)}
      sorted == CHOOSE f \in Listings(keys) :
                  \A i \in 1..(Cardinality(keys) - 1) : TupleLess(f[i], f[i + 1])
  IN  [k \in 1..Cardinality(keys) |->
         [period |-> sorted[k],
          message_count |->
            Cardinality({messages[i].timestamp :
                           i \in {j \in 1..Len(messages) :
                                    KeyOf(time_group, messages[j].timestamp) = sorted[k]}})]]

\* SELECT key, count(*) ... GROUP BY key ORDER BY key
GroupCount(messages, time_group) ==
  LET keys == {KeyOf(time_group, messages[i].timestamp) : i \in 1..Len(messages)}
      sorted == CHOOSE f \in Listings(keys) :
                  \A i \in 1..(Cardinality(keys) - 1) : TupleLess(f[i], f[i + 1])
  IN  [k \in 1..Cardinality(keys) |->
         [period |-> sorted[k],
          message_count |->
            Cardinality({i \in 1..Len(messages) :
                           KeyOf(time_group, messages[i].timestamp) = sorted[k]})]]

\* The timestamps of the rows
TimestampsOf(messages) == [i \in 1..Len(messages) |-> messages[i].timestamp]

\* round(num / den, 2) in hundredths, halves to the even hundredth
Round2(num, den) ==
  LET q == (100 * num) \div den
      r == (100 * num) % den
  IN  IF 2 * r > den \/ (2 * r = den /\ q % 2 = 1) THEN q + 1 ELSE q

\* SELECT message_type, count(id) ... GROUP BY message_type, as a dictionary
MessageTypeCounts(messages) ==
  [t \in {messages[i].message_type : i \in 1..Len(messages)} |->
     Cardinality({i \in 1..Len(messages) : messages[i].message_type = t})]

\* duration_days that counts one day for a chat without a date range
DurationDays_AtLeastOne(min_date, max_date) ==
  IF min_date # <<>> /\ max_date # <<>>
  THEN TimedeltaDays(min_date[1], max_date[1]) + 1
  ELSE 1

\* duration_days = (max_date - min_date).days + 1 when there is a date range
DurationDays(min_date, max_date) ==
  IF min_date # <<>> /\ max_date # <<>>
  THEN TimedeltaDays(min_date[1], max_date[1]) + 1
  ELSE 0

\* avg_messages_per_day, rounded, in hundredths
AvgMessagesPerDay(total_messages, min_date, max_date) ==
  IF min_date # <<>> /\ max_date # <<>> /\ DurationDays(min_date, max_date) > 0
  THEN Round2(total_messages, DurationDays(min_date, max_date))
  ELSE 0

\* ChatAnalyzer.get_basic_stats
get_basic_stats(messages, participants) ==
  [raised |-> "",
   total_messages |-> Len(messages),
   participant_count |-> Cardinality(participants),
   duration_days |-> DurationDays(MinOf(TimestampsOf(messages)), MaxOf(TimestampsOf(messages))),
   avg_messages_per_day |->
     AvgMessagesPerDay(Len(messages), MinOf(TimestampsOf(messages)),
                       MaxOf(TimestampsOf(messages))),
   date_range |-> [start |-> MinOf(TimestampsOf(messages)),
                   end |-> MaxOf(TimestampsOf(messages))],
   message_types |-> MessageTypeCounts(messages)]

\* The sum of a sequence of numbers
RECURSIVE SumOf(_)
SumOf(numbers) == IF numbers = <<>> THEN 0 ELSE Head(numbers) + SumOf(Tail(numbers))

\* list.sort(key=..., reverse=True) and sorted(..., reverse=True): by
\* descending key, equal keys in their former order
StableSortDesc(rows, key) ==
  LET before(i) == {j \in 1..Len(rows) :
                      \/ rows[j][key] > rows[i][key]
                      \/ rows[j][key] = rows[i][key] /\ j < i}
  IN  [k \in 1..Len(rows) |->
         rows[CHOOSE i \in 1..Len(rows) : Cardinality(before(i)) = k - 1]]

\* The rows of Participant JOIN Message of one participant
MessagesOf(messages, participant) ==
  SelectSeq(messages, LAMBDA m : m.participant_id = participant.id)

\* One row of the participant statistics query, as the result dictionary
ParticipantStats(participant, own) ==
  [id |-> participant.id,
   name |-> participant.name,
   message_count |-> Len(own),
   avg_message_length |-> Round2(SumOf([i \in 1..Len(own) |-> own[i].char_count]), Len(own)),
   total_characters |-> SumOf([i \in 1..Len(own) |-> own[i].char_count]),
   total_words |-> SumOf([i \in 1..Len(own) |-> own[i].word_count]),
   emoji_count |-> Len(SelectSeq(own, LAMBDA m : m.has_emoji)),
   link_count |-> Len(SelectSeq(own, LAMBDA m : m.has_link)),
   first_message |-> MinOf(TimestampsOf(own)),
   last_message |-> MaxOf(TimestampsOf(own))]

\* The participants the inner join keeps: those with a message
JoinedParticipants(messages, participants) ==
  {p \in participants : \E i \in 1..Len(messages) : messages[i].participant_id = p.id}

\* ChatAnalyzer.get_participant_statistics; grouped lists the groups in the
\* order the GROUP BY query returned them
get_participant_statistics(messages, grouped) ==
  [raised |-> "",
   results |->
     StableSortDesc([i \in 1..Len(grouped) |->
                       ParticipantStats(grouped[i], MessagesOf(messages, grouped[i]))],
                    "message_count")]

\* ChatAnalyzer.get_timeline_data
get_timeline_data(messages, granularity) ==
  IF granularity = "daily" THEN [raised |-> "", timeline |-> GroupCount(messages, "date")]
  ELSE IF granularity = "weekly"
       THEN [raised |-> "", timeline |-> GroupCount(messages, "%Y-W%U")]
  ELSE IF granularity = "monthly"
       THEN [raised |-> "", timeline |-> GroupCount(messages, "%Y-%m")]
  ELSE [raised |-> "ValueError"]

\* [{"period": ..., "count": row.count} for row in time_data]
PeriodCounts(rows) ==
  [k \in 1..Len(rows) |-> [period |-> rows[k].period, count |-> rows[k].message_count]]

\* [{"date": str(row[0]), "count": row[1]} for row in data]
DateCounts(rows) ==
  [k \in 1..Len(rows) |-> [date |-> rows[k].period, count |-> rows[k].message_count]]

\* ExtendedChatAnalyzer.get_activity_over_time (and the same method of
\* ChatAnalyzer): with another period stmt is never assigned, and
\* self.session.execute(stmt) raises UnboundLocalError
get_activity_over_time(messages, period) ==
  IF period \notin {"daily", "weekly", "monthly"} THEN [raised |-> "UnboundLocalError"]
  ELSE [raised |-> "",
        period |-> period,
        data |-> PeriodCounts(GroupCount(messages,
                                         IF period = "daily" THEN "date"
                                         ELSE IF period = "weekly" THEN "%Y-W%W"
                                         ELSE "%Y-%m")),
        first_message |-> MinOf(TimestampsOf(messages)),
        last_message |-> MaxOf(TimestampsOf(messages))]

\* analyzer_clean.ChatAnalyzer.get_timeline_data: every period that is
\* neither daily nor weekly is bucketed by month
clean_get_timeline_data(messages, period) ==
  [raised |-> "",
   period |-> period,
   data |-> DateCounts(GroupCount(messages,
                                  IF period = "daily" THEN "date"
                                  ELSE IF period = "weekly" THEN "%Y-W%W" ELSE "%Y-%m"))]

\* count(*) ... GROUP BY strftime('%w'), strftime('%H'): the count of one group
HeatmapCount(messages, day_idx, hour_idx) ==
  Cardinality({i \in 1..Len(messages) :
                 /\ StrftimeW(messages[i].timestamp) = day_idx
                 /\ StrftimeH(messages[i].timestamp) = hour_idx})

\* heatmap_matrix: 7 rows of 24 zeros, then the count of every group
HeatmapMatrix(messages) ==
  [day_idx \in 0..6 |-> [hour_idx \in 0..23 |-> HeatmapCount(messages, day_idx, hour_idx)]]

\* ChatAnalyzer.get_activity_heatmap
get_activity_heatmap(messages) ==
  [raised |-> "", matrix |-> HeatmapMatrix(messages)]

\* max_count: the largest count of a group, 0 without groups
HeatmapMax(messages) ==
  CHOOSE c \in {0} \cup {HeatmapCount(messages, StrftimeW(messages[i].timestamp),
                                       StrftimeH(messages[i].timestamp)) :
                          i \in 1..Len(messages)} :
    \A i \in 1..Len(messages) :
       c >= HeatmapCount(messages, StrftimeW(messages[i].timestamp),
                         StrftimeH(messages[i].timestamp))

\* ExtendedChatAnalyzer.get_hourly_activity_heatmap; row.count is read as
\* the column labelled "count"
get_hourly_activity_heatmap(messages) ==
  [raised |-> "", data |-> HeatmapMatrix(messages), max_count |-> HeatmapMax(messages)]

\* ChatAnalyzer.get_word_frequency: the class has no method _extract_words,
\* so the first text message raises AttributeError; without text messages
\* the counter stays empty
get_word_frequency(messages, limit) ==
  IF \E i \in 1..Len(messages) : messages[i].message_type = "text"
  THEN [raised |-> "AttributeError"]
  ELSE [raised |-> "", words |-> <<>>]

\* The rows of the interaction query: Message JOIN Participant, with the
\* name of the participant as sender
InteractionRows(messages, participants) ==
  [i \in 1..Len(messages) |->
     [timestamp |-> messages[i].timestamp,
      sender |-> (CHOOSE p \in participants : p.id = messages[i].participant_id).name,
      content |-> messages[i].content]]

\* round(num / den, 1) in tenths, halves to the even tenth
Round1(num, den) ==
  LET q == (10 * num) \div den
      r == (10 * num) % den
  IN  IF 2 * r > den \/ (2 * r = den /\ q % 2 = 1) THEN q + 1 ELSE q

\* The loop body with both windows closed at their ends: a response up to
\* and including one hour, a pause from four hours on
PairStep_Inclusive(acc, prev_message, current_message, time_diff) ==
  [response_times |->
     IF current_message.sender # prev_message.sender /\ time_diff <= 3600 /\ time_diff > 0
     THEN Append(acc.response_times,
                 [sender |-> current_message.sender, time_diff |-> time_diff])
     ELSE acc.response_times,
   pauses |->
     IF time_diff >= 14400
     THEN Append(acc.pauses,
                 [duration_hours |-> Round1(time_diff, 3600),
                  before |-> prev_message.timestamp,
                  after |-> current_message.timestamp,
                  restarted_by |-> current_message.sender])
     ELSE acc.pauses,
   conversation_starters |->
     IF time_diff >= 14400
     THEN Append(acc.conversation_starters, current_message.sender)
     ELSE acc.conversation_starters]

\* The body of the loop over the adjacent pairs; acc holds the response
\* samples, the pauses and the conversation starts recorded so far
PairStep(acc, prev_message, current_message, time_diff) ==
  [response_times |->
     IF current_message.sender # prev_message.sender /\ time_diff < 3600 /\ time_diff > 0
     THEN Append(acc.response_times,
                 [sender |-> current_message.sender, time_diff |-> time_diff])
     ELSE acc.response_times,
   pauses |->
     IF time_diff > 14400
     THEN Append(acc.pauses,
                 [duration_hours |-> Round1(time_diff, 3600),
                  before |-> prev_message.timestamp,
                  after |-> current_message.timestamp,
                  restarted_by |-> current_message.sender])
     ELSE acc.pauses,
   conversation_starters |->
     IF time_diff > 14400
     THEN Append(acc.conversation_starters, current_message.sender)
     ELSE acc.conversation_starters]

\* for i in range(1, len(messages)), with prev_message = messages[i - 1]
RECURSIVE WalkPairs(_, _, _)
WalkPairs(messages, i, acc) ==
  IF i > Len(messages) THEN acc
  ELSE WalkPairs(messages, i + 1,
                 PairStep(acc, messages[i - 1], messages[i],
                          TotalSeconds(messages[i - 1].timestamp, messages[i].timestamp)))

\* The keys of a dictionary in insertion order: the names in the order of
\* their first occurrence
RECURSIVE FirstSeen(_)
FirstSeen(names) ==
  IF names = <<>> THEN <<>>
  ELSE IF \E i \in 1..(Len(names) - 1) : names[i] = names[Len(names)]
       THEN FirstSeen(SubSeq(names, 1, Len(names) - 1))
       ELSE Append(FirstSeen(SubSeq(names, 1, Len(names) - 1)), names[Len(names)])

\* avg_response_times[sender]: mean and median in tenths of a second
ResponseStats(name, times) ==
  [name |-> name,
   avg_seconds |-> Round1(SumOf(times), Len(times)),
   median_seconds |-> 10 * SortSeq(times, <)[(Len(times) \div 2) + 1],
   response_count |-> Len(times)]

\* The response_times list of the result
ResponseTimes(samples) ==
  [k \in 1..Len(FirstSeen([i \in 1..Len(samples) |-> samples[i].sender])) |->
     ResponseStats(FirstSeen([i \in 1..Len(samples) |-> samples[i].sender])[k],
                   [j \in 1..Len(SelectSeq(samples, LAMBDA x :
                        x.sender = FirstSeen([i \in 1..Len(samples) |-> samples[i].sender])[k])) |->
                      SelectSeq(samples, LAMBDA x :
                        x.sender = FirstSeen([i \in 1..Len(samples) |-> samples[i].sender])[k])[j].time_diff])]

\* The conversation starters with every sender counted once
ConversationStarters_CountedOnce(starts) ==
  [k \in 1..Len(FirstSeen(starts)) |-> [name |-> FirstSeen(starts)[k], count |-> 1]]

\* The conversation_starters list of the result: starts is the sequence of
\* the senders counted, one entry per count
ConversationStarters(starts) ==
  StableSortDesc([k \in 1..Len(FirstSeen(starts)) |->
                    [name |-> FirstSeen(starts)[k],
                     count |-> Len(SelectSeq(starts, LAMBDA x : x = FirstSeen(starts)[k]))]],
                 "count")

\* sorted(pauses, key=duration_hours, reverse=True)[:10]
LongestPauses(pauses) ==
  SubSeq(StableSortDesc(pauses, "duration_hours"), 1,
         IF Len(pauses) < 10 THEN Len(pauses) ELSE 10)

\* The result dictionary of get_interaction_metrics after the loop
InteractionResult(acc) ==
  [raised |-> "",
   response_times |-> ResponseTimes(acc.response_times),
   conversation_starters |-> ConversationStarters(acc.conversation_starters),
   longest_pauses |-> LongestPauses(acc.pauses)]

\* get_interaction_metrics with the early return for the empty chat only
get_interaction_metrics_EmptyOnly(messages) ==
  IF Len(messages) < 1
  THEN [raised |-> "", response_times |-> <<>>, conversation_starters |-> <<>>,
        longest_pauses |-> <<>>]
  ELSE InteractionResult(
         WalkPairs(messages, 2,
                   [response_times |-> <<>>, pauses |-> <<>>,
                    conversation_starters |-> <<messages[1].sender>>]))

\* ExtendedChatAnalyzer.get_interaction_metrics (and the same method of
\* ChatAnalyzer); messages is the result of the query, ordered by timestamp
get_interaction_metrics(messages) ==
  IF Len(messages) < 2
  THEN [raised |-> "", response_times |-> <<>>, conversation_starters |-> <<>>,
        longest_pauses |-> <<>>]
  ELSE InteractionResult(
         WalkPairs(messages, 2,
                   [response_times |-> <<>>, pauses |-> <<>>,
                    conversation_starters |-> <<messages[1].sender>>]))

(***************************************************************************)
(* The uploads of the model: file names and transcripts                    *)
(***************************************************************************)

NameTxt == <<"c", "h", "a", "t", "_", "1", ".", "t", "x", "t">>

NamePdf == <<"c", "h", "a", "t", ".", "p", "d", "f">>

FileNames == {NameTxt, NamePdf}

\* Timestamp brackets, as exports of different devices and locales write them
TsUsShortSec ==
  <<"[", "1", "/", "2", "/", "2", "4", ",", " ", "1", "0", ":", "0", "0", ":", "0",
    "0", " ", "A", "M", "]">>

TsUsShortSecLater ==
  <<"[", "1", "/", "2", "/", "2", "4", ",", " ", "1", "0", ":", "0", "5", ":", "0",
    "0", " ", "A", "M", "]">>

TsUsLongSec ==
  <<"[", "1", "2", "/", "2", "5", "/", "2", "0", "2", "3", ",", " ", "3", ":", "4",
    "5", ":", "0", "0", " ", "P", "M", "]">>

TsUsLongMin ==
  <<"[", "1", "2", "/", "2", "5", "/", "2", "0", "2", "3", ",", " ", "3", ":", "4",
    "5", " ", "P", "M", "]">>

TsUsShortMin ==
  <<"[", "1", "/", "2", "/", "2", "4", ",", " ", "1", "0", ":", "0", "5", " ", "A",
    "M", "]">>

TsEuSec ==
  <<"[", "2", "5", "/", "1", "2", "/", "2", "0", "2", "3", ",", " ", "1", "4", ":",
    "3", "0", ":", "0", "0", "]">>

TsEuMin ==
  <<"[", "2", "5", "/", "1", "2", "/", "2", "0", "2", "3", ",", " ", "1", "4", ":",
    "3", "0", "]">>

TsIso ==
  <<"[", "2", "0", "2", "3", "-", "1", "2", "-", "2", "5", " ", "1", "4", ":", "3",
    "0", ":", "0", "0", "]">>

TsUsShortSecNoComma ==
  <<"[", "1", "/", "2", "/", "2", "4", " ", "1", "0", ":", "0", "0", ":", "0", "0",
    " ", "A", "M", "]">>

TsUsShortMinNoComma ==
  <<"[", "1", "/", "2", "/", "2", "4", " ", "1", "0", ":", "0", "5", " ", "A", "M",
    "]">>

TsUsLongSecNoComma ==
  <<"[", "1", "2", "/", "2", "5", "/", "2", "0", "2", "3", " ", "3", ":", "4", "5",
    ":", "0", "0", " ", "P", "M", "]">>

TsUsLongMinNoComma ==
  <<"[", "1", "2", "/", "2", "5", "/", "2", "0", "2", "3", " ", "3", ":", "4", "5",
    " ", "P", "M", "]">>

TsNarrowSpace ==
  <<"[", "1", "/", "2", "/", "2", "4", ",", " ", "1", "0", ":", "0", "0", ":", "0",
    "0", "U+202F", "A", "M", "]">>

TsBadDay ==
  <<"[", "2", "/", "3", "0", "/", "2", "4", ",", " ", "1", "0", ":", "0", "0", ":",
    "0", "0", " ", "A", "M", "]">>

TsEarly ==
  <<"[", "1", "2", "/", "3", "1", "/", "2", "3", ",", " ", "1", "1", ":", "5", "9",
    ":", "5", "9", " ", "P", "M", "]">>

TsLate ==
  <<"[", "1", "/", "3", "/", "2", "4", ",", " ", "9", ":", "0", "0", ":", "0", "0",
    " ", "P", "M", "]">>

Brackets ==
  {TsUsShortSec, TsUsShortSecLater, TsUsLongSec, TsUsLongMin,
   TsUsShortMin, TsEuSec, TsEuMin, TsIso,
   TsUsShortSecNoComma, TsUsShortMinNoComma, TsUsLongSecNoComma, TsUsLongMinNoComma,
   TsNarrowSpace, TsBadDay, TsEarly, TsLate}

Alice == <<"A", "l", "i", "c", "e">>

Bob == <<"B", "o", "b">>

\* Message bodies
Hi == <<"h", "i">>

HelloWorld == <<"h", "e", "l", "l", "o", " ", "w", "o", "r", "l", "d">>

EmojiAndLink ==
  <<"h", "i", " ", "A", "l", "i", "c", "e", " ", "U+1F600", " ", "h", "t", "t", "p",
    ":", "/", "/", "e", "x", "a", "m", "p", "l", "e", ".", "c", "o", "m">>

ThinkingFace == <<"h", "m", "m", " ", "U+1F914">>

Heart == <<"I", " ", "U+2764", " ", "i", "t">>

OnlyMediaOmitted ==
  <<"<", "M", "e", "d", "i", "a", " ", "o", "m", "i", "t", "t", "e", "d", ">">>

ShoutedImageOmitted == <<"I", "M", "A", "G", "E", " ", "O", "M", "I", "T", "T", "E", "D">>

OnlyDeleted ==
  <<"T", "h", "i", "s", " ", "m", "e", "s", "s", "a", "g", "e", " ", "w", "a", "s",
    " ", "d", "e", "l", "e", "t", "e", "d">>

MediaAndDeleted ==
  <<"<", "M", "e", "d", "i", "a", " ", "o", "m", "i", "t", "t", "e", "d", ">", " ",
    "T", "h", "i", "s", " ", "m", "e", "s", "s", "a", "g", "e", " ", "w", "a", "s", " ",
    "d", "e", "l", "e", "t", "e", "d">>

OddSpacing == <<"a", " ", " ", "b", "\t", "c">>

LinkAndTime ==
  <<"s", "e", "e", " ", "h", "t", "t", "p", "s", ":", "/", "/", "x", ".", "y", " ",
    "a", "t", " ", "1", "0", ":", "3", "0">>

BareScheme == <<"s", "e", "e", " ", "h", "t", "t", "p", ":", "/", "/">>

WithBadByte == <<"c", "a", "f", "0xFF", " ", "o", "k">>

OnlyBadByte == <<"0xFF">>

PlainBodies ==
  {<<>>, Hi, HelloWorld, EmojiAndLink, ThinkingFace,
   Heart, OnlyMediaOmitted, ShoutedImageOmitted, OnlyDeleted,
   MediaAndDeleted, OddSpacing, LinkAndTime, BareScheme,
   WithBadByte, OnlyBadByte}

\* str.upper, to write a phrase in capitals
Upper(s) ==
  [i \in 1..Len(s) |-> IF IsLower(s[i]) THEN Ascii[Ord[s[i]] - 32 - 31] ELSE s[i]]

\* s with the letters at the indices in caps written in capitals
Recase(s, caps) == [i \in 1..Len(s) |-> IF i \in caps THEN Upper(s)[i] ELSE Lower(s)[i]]

\* Bodies that hold a phrase of system_messages: the phrase as listed, in
\* small letters, in capitals and capitalised, alone and inside a sentence,
\* and every casing of 'left'
SystemBodies ==
  UNION {{system_messages[k],
          Recase(system_messages[k], {}),
          Recase(system_messages[k], 1..Len(system_messages[k])),
          Recase(system_messages[k], {1}),
          Bob \o <<" ">> \o system_messages[k] \o <<" ">> \o Alice} :
         k \in 1..Len(system_messages)}
  \cup {Recase(system_messages[5], caps) : caps \in SUBSET (1..4)}

\* "[timestamp] name: body"
MkLine(bracket, name, body) == bracket \o <<" ">> \o name \o <<":", " ">> \o body

\* Lines that start no message
Continuation ==
  <<"a", "n", "d", " ", "a", " ", "s", "e", "c", "o", "n", "d", " ", "l", "i", "n",
    "e", " ", "o", "f", " ", "t", "e", "x", "t">>

NoColon ==
  <<"[", "1", "/", "2", "/", "2", "4", ",", " ", "1", "0", ":", "0", "0", ":", "0",
    "0", " ", "A", "M", "]", " ", "A", "l", "i", "c", "e", " ", "j", "o", "i", "n", "e",
    "d", " ", "u", "s", "i", "n", "g", " ", "a", "n", " ", "i", "n", "v", "i", "t", "e",
    " ", "l", "i", "n", "k">>

Blank == <<" ", " ">>

\* The lines of the one-line transcripts
RichLines ==
  {MkLine(b, Alice, Hi) : b \in Brackets}
  \cup {MkLine(TsUsShortSec, Bob, body) : body \in PlainBodies \cup SystemBodies}
  \cup {MkLine(TsIso, Bob, body) : body \in {EmojiAndLink, MediaAndDeleted}}
  \cup {MkLine(TsUsShortSec, name, HelloWorld) : name \in {<<>>, <<" ">>}}
  \cup {Continuation, NoColon, Blank, <<>>}

\* The lines of the transcripts of several lines
CoreLines ==
  {MkLine(TsUsShortSec, Alice, HelloWorld),
   MkLine(TsUsShortSecLater, Bob, EmojiAndLink) \o <<"\r">>,
   MkLine(TsEarly, Bob, OnlyMediaOmitted),
   MkLine(TsEarly, Alice, Bob \o <<" ">> \o system_messages[5]),
   MkLine(TsBadDay, Alice, Hi),
   MkLine(TsIso, Alice, WithBadByte),
   Continuation}

MaxLines == 2

\* A file of the given lines, each ended by a newline
RECURSIVE File(_)
File(lines) == IF lines = <<>> THEN <<>> ELSE Head(lines) \o <<"\n">> \o File(Tail(lines))

Transcripts ==
  RichLines
  \cup UNION {{File(ls) : ls \in [1..n -> CoreLines]} : n \in 0..MaxLines}

(***************************************************************************)
(* The state machine: one upload request                                   *)
(***************************************************************************)

Init ==
  /\ filename \in FileNames
  /\ content \in Transcripts
  /\ pc = "start"
  /\ chat_data = <<>>
  /\ chat = <<>>
  /\ db_participants = {}
  /\ db_messages = <<>>
  /\ response = <<>>

\* upload_chat_file after parse_chat: an exception becomes HTTP 400, else
\* the Chat row is committed
CreateChat(data) ==
  IF data.raised
  THEN /\ pc' = "http_400"
       /\ UNCHANGED <<chat_data, chat>>
  ELSE /\ chat_data' = <<data>>
       /\ chat' = <<ChatRow(content, data)>>
       /\ pc' = "chat_committed"

\* upload_chat_file up to the commit of the Chat row: the file type check,
\* parse_chat and the Chat row
UploadChatFile ==
  /\ pc = "start"
  /\ IF ~ValidFileType(filename)
     THEN /\ pc' = "http_400"
          /\ UNCHANGED <<chat_data, chat>>
     ELSE CreateChat(parse_chat(content))
  /\ UNCHANGED <<filename, content, db_participants, db_messages, response>>

\* parser.store_chat_data and its commit, then the response
StoreChatData ==
  /\ pc = "chat_committed"
  /\ db_participants' = ParticipantRows(chat_data[1])
  /\ db_messages' = MessageRows(chat_data[1])
  /\ pc' = "done"
  /\ UNCHANGED <<filename, content, chat_data, chat, response>>

Next == UploadChatFile \/ StoreChatData

Spec == Init /\ [][Next]_vars

(***************************************************************************)
(* The state machine of the analytics requests on a stored chat            *)
(***************************************************************************)

DigitChars == <<"0", "1", "2", "3", "4", "5", "6", "7", "8", "9">>

\* n as decimal digits, n < 100
Decimal(n) ==
  IF n < 10 THEN <<DigitChars[n + 1]>> ELSE <<DigitChars[(n \div 10) + 1], DigitChars[(n % 10) + 1]>>

\* n as two decimal digits
TwoDigits(n) == <<DigitChars[(n \div 10) + 1], DigitChars[(n % 10) + 1]>>

\* "[M/D/YY, H:MM:SS AM]" or "... PM]"
BracketAt(month, day, yy, hour, minute, second, half) ==
  <<"[">> \o Decimal(month) \o <<"/">> \o Decimal(day) \o <<"/">> \o TwoDigits(yy)
  \o <<",", " ">> \o Decimal(hour) \o <<":">> \o TwoDigits(minute) \o <<":">>
  \o TwoDigits(second) \o <<" ">> \o half \o <<"]">>

AM == <<"A", "M">>

PM == <<"P", "M">>

\* The lines of the chats the analytics run on: two senders, messages of
\* kind text and media, at 10:00:00 (one of each sender), 10:59:59,
\* 11:00:00, 14:00:00 and 14:00:01 of Tuesday 2 January 2024 and at
\* 23:59:59 of Sunday 31 December 2023
TimedLines ==
  {MkLine(BracketAt(1, 2, 24, 10, 0, 0, AM), Alice, Hi),
   MkLine(BracketAt(1, 2, 24, 10, 0, 0, AM), Bob, OnlyMediaOmitted),
   MkLine(BracketAt(1, 2, 24, 10, 59, 59, AM), Alice, HelloWorld),
   MkLine(BracketAt(1, 2, 24, 11, 0, 0, AM), Bob, HelloWorld),
   MkLine(BracketAt(1, 2, 24, 2, 0, 0, PM), Alice, OnlyMediaOmitted),
   MkLine(BracketAt(1, 2, 24, 2, 0, 1, PM), Bob, Hi),
   MkLine(BracketAt(12, 31, 23, 11, 59, 59, PM), Alice, OnlyMediaOmitted)}

MaxMessages == 2

\* A chat in which Bob answers Alice twice, after 10 seconds and after 1
\* second, and Alice answers Bob once
Rally ==
  File(<<MkLine(BracketAt(1, 2, 24, 10, 0, 0, AM), Alice, Hi),
         MkLine(BracketAt(1, 2, 24, 10, 0, 10, AM), Bob, Hi),
         MkLine(BracketAt(1, 2, 24, 10, 59, 59, AM), Alice, HelloWorld),
         MkLine(BracketAt(1, 2, 24, 11, 0, 0, AM), Bob, HelloWorld)>>)

\* A chat of twelve messages from midnight of 31 December 2023 on, with
\* eleven pauses: 14600 seconds, nine times five hours, and 14900 seconds
Marathon ==
  File(<<MkLine(BracketAt(12, 31, 23, 12, 0, 0, AM), Alice, Hi),
         MkLine(BracketAt(12, 31, 23, 4, 3, 20, AM), Bob, Hi),
         MkLine(BracketAt(12, 31, 23, 9, 3, 20, AM), Alice, Hi),
         MkLine(BracketAt(12, 31, 23, 2, 3, 20, PM), Bob, Hi),
         MkLine(BracketAt(12, 31, 23, 7, 3, 20, PM), Alice, Hi),
         MkLine(BracketAt(1, 1, 24, 12, 3, 20, AM), Bob, Hi),
         MkLine(BracketAt(1, 1, 24, 5, 3, 20, AM), Alice, Hi),
         MkLine(BracketAt(1, 1, 24, 10, 3, 20, AM), Bob, Hi),
         MkLine(BracketAt(1, 1, 24, 3, 3, 20, PM), Alice, Hi),
         MkLine(BracketAt(1, 1, 24, 8, 3, 20, PM), Bob, Hi),
         MkLine(BracketAt(1, 2, 24, 1, 3, 20, AM), Alice, Hi),
         MkLine(BracketAt(1, 2, 24, 5, 11, 40, AM), Bob, Hi)>>)

\* The transcripts of the stored chats
TimedTranscripts ==
  UNION {{File(ls) : ls \in [1..n -> TimedLines]} : n \in 0..MaxMessages}
  \cup {Rally, Marathon}

\* The granularities a caller passes
Granularities == {"daily", "weekly", "monthly", "hourly"}

\* The limits a caller passes
Limits == {0, 1, 100}

\* The state after the upload of a transcript by UploadChatFile and
\* StoreChatData
AnalyticsInit ==
  /\ filename = NameTxt
  /\ content \in TimedTranscripts
  /\ pc = "done"
  /\ chat_data = <<parse_chat(content)>>
  /\ chat = <<ChatRow(content, chat_data[1])>>
  /\ db_participants = ParticipantRows(chat_data[1])
  /\ db_messages = MessageRows(chat_data[1])
  /\ response = <<>>

\* Respond, had the request also deleted the messages it read
Respond_Expunging(r) ==
  /\ pc = "done"
  /\ response' = <<r>>
  /\ db_messages' = <<>>
  /\ UNCHANGED <<filename, content, pc, chat_data, chat, db_participants>>

\* The analytics read the stored rows and change nothing
Respond(r) ==
  /\ pc = "done"
  /\ response' = <<r>>
  /\ UNCHANGED <<filename, content, pc, chat_data, chat, db_participants, db_messages>>

GetBasicStats ==
  Respond([op |-> "get_basic_stats", result |-> get_basic_stats(db_messages, db_participants)])

GetParticipantStatistics ==
  \E grouped \in Listings(JoinedParticipants(db_messages, db_participants)) :
     Respond([op |-> "get_participant_statistics",
              result |-> get_participant_statistics(db_messages, grouped)])

GetTimelineData ==
  \E granularity \in Granularities :
     Respond([op |-> "get_timeline_data", granularity |-> granularity,
              result |-> get_timeline_data(db_messages, granularity)])

GetActivityOverTime ==
  \E period \in Granularities :
     Respond([op |-> "get_activity_over_time", granularity |-> period,
              result |-> get_activity_over_time(db_messages, period)])

CleanGetTimelineData ==
  \E period \in Granularities :
     Respond([op |-> "clean_get_timeline_data", granularity |-> period,
              result |-> clean_get_timeline_data(db_messages, period)])

GetWordFrequency ==
  \E limit \in Limits :
     Respond([op |-> "get_word_frequency", limit |-> limit,
              result |-> get_word_frequency(db_messages, limit)])

GetActivityHeatmap ==
  Respond([op |-> "get_activity_heatmap", result |-> get_activity_heatmap(db_messages)])

GetHourlyActivityHeatmap ==
  Respond([op |-> "get_hourly_activity_heatmap",
           result |-> get_hourly_activity_heatmap(db_messages)])

\* messages is what the query returned: the rows in one of the orders
\* ORDER BY Message.timestamp allows
GetInteractionMetrics ==
  \E messages \in OrderedByTimestamp(InteractionRows(db_messages, db_participants)) :
     Respond([op |-> "get_interaction_metrics", messages |-> messages,
              result |-> get_interaction_metrics(messages)])

AnalyticsNext ==
  \/ GetBasicStats
  \/ GetParticipantStatistics
  \/ GetTimelineData
  \/ GetActivityOverTime
  \/ CleanGetTimelineData
  \/ GetWordFrequency
  \/ GetActivityHeatmap
  \/ GetHourlyActivityHeatmap
  \/ GetInteractionMetrics

AnalyticsSpec == AnalyticsInit /\ [][AnalyticsNext]_vars

(***************************************************************************)
(* Properties of the transcript parser                                     *)
(***************************************************************************)

\* parse_chat has returned and the Chat row is committed
Parsed == pc \in {"chat_committed", "done"}

\* The lines of the uploaded file as written, without their line ends
RawLines ==
  LET ls == SplitOn(content, "\n")
  IN  [k \in 1..Len(ls) |->
         IF ls[k] # <<>> /\ ls[k][Len(ls[k])] = "\r"
         THEN SubSeq(ls[k], 1, Len(ls[k]) - 1) ELSE ls[k]]

\* The written lines that are not empty
WrittenLines == SelectSeq(RawLines, LAMBDA l : l # <<>>)

\* body holds, in any casing, a phrase of the system-phrase set
HoldsSystemPhrase(body) ==
  \E k \in 1..Len(system_messages) : Contains(Lower(body), Lower(system_messages[k]))

HoldsMediaMarker(body) ==
  Contains(body, MediaOmitted) \/ Contains(Lower(body), ImageOmitted)

HoldsDeletionMarker(body) == Contains(body, MessageDeleted)

\* The emoji among the code points of the model
EmojiChars == {"U+2764", "U+1F600", "U+1F914"}

HoldsEmoji(body) == \E i \in 1..Len(body) : body[i] \in EmojiChars

\* body holds http:// or https:// followed by a letter or a digit
HoldsUrl(body) ==
  \E i \in 1..Len(body) : \E scheme \in {<<"h", "t", "t", "p", ":", "/", "/">>,
                                        <<"h", "t", "t", "p", "s", ":", "/", "/">>} :
     /\ i + Len(scheme) <= Len(body)
     /\ SubSeq(body, i, i + Len(scheme) - 1) = scheme
     /\ \/ IsLower(body[i + Len(scheme)]) \/ IsUpper(body[i + Len(scheme)])
        \/ IsDigit(body[i + Len(scheme)])

\* The bodies with no invalid byte and no system phrase
CleanBodies == {b \in PlainBodies : \A i \in 1..Len(b) : b[i] # BadByte}

\* The parts of the lines "[M/D/YY, H:MM:SS AM|PM] Name: body"
WellFormedParts ==
  [bracket : {TsUsShortSec, TsUsShortSecLater, TsEarly, TsLate},
   name : {Alice, Bob},
   body : CleanBodies]

PartsOf(l) == CHOOSE w \in WellFormedParts : l = MkLine(w.bracket, w.name, w.body)

IsWellFormed(l) == \E w \in WellFormedParts : l = MkLine(w.bracket, w.name, w.body)

\* C1: a transcript made only of lines "[M/D/YY, H:MM:SS AM|PM] Name: body"
\* whose bodies hold no system phrase gives one record per line, the
\* participants are exactly the names, a body without media or deletion
\* marker is of kind text, a body with an emoji has has_emoji and a body with
\* an http(s) URL has has_link.
C1_WellFormedTranscript ==
  (/\ Parsed
   /\ WrittenLines # <<>>
   /\ \A k \in 1..Len(WrittenLines) : IsWellFormed(WrittenLines[k]))
  => /\ Len(chat_data[1].messages) = Len(WrittenLines)
     /\ chat_data[1].participants =
          {PartsOf(WrittenLines[k]).name : k \in 1..Len(WrittenLines)}
     /\ \A k \in 1..Len(WrittenLines) :
          /\ ~HoldsMediaMarker(PartsOf(WrittenLines[k]).body)
               /\ ~HoldsDeletionMarker(PartsOf(WrittenLines[k]).body)
             => chat_data[1].messages[k].message_type = "text"
          /\ HoldsEmoji(PartsOf(WrittenLines[k]).body) => chat_data[1].messages[k].has_emoji
          /\ HoldsUrl(PartsOf(WrittenLines[k]).body) => chat_data[1].messages[k].has_link

\* The number of whitespace-delimited tokens of c: the places where a token
\* starts
TokenCount(c) ==
  Cardinality({i \in 1..Len(c) : ~IsSpace(c[i]) /\ (i = 1 \/ IsSpace(c[i - 1]))})

\* C2: every record of parse_chat has char_count = len(content) and
\* word_count = the number of whitespace-delimited tokens of content, and
\* the rows store_chat_data writes keep the content and both counts.
C2_CountsMatchContent ==
  /\ Parsed =>
       \A k \in 1..Len(chat_data[1].messages) :
          /\ chat_data[1].messages[k].char_count = Len(chat_data[1].messages[k].content)
          /\ chat_data[1].messages[k].word_count =
               TokenCount(chat_data[1].messages[k].content)
  /\ pc = "done" =>
       /\ Len(db_messages) = Len(chat_data[1].messages)
       /\ \A k \in 1..Len(db_messages) :
            /\ db_messages[k].content = chat_data[1].messages[k].content
            /\ db_messages[k].char_count = Len(db_messages[k].content)
            /\ db_messages[k].word_count = TokenCount(db_messages[k].content)

\* C2's case: a stored message of three tokens separated by runs of
\* whitespace
C2_Witness ==
  /\ pc = "done"
  /\ \E k \in 1..Len(db_messages) :
       db_messages[k].content = OddSpacing /\ db_messages[k].word_count = 3

\* One bracket of each format class of the timestamp resolver's contract:
\* month/day/year with seconds and AM/PM, month/day/year without seconds,
\* day/month/year 24-hour, ISO, and the two-digit-year variants with and
\* without the comma
ListedBrackets ==
  {TsUsLongSec, TsUsLongMin, TsEuSec, TsEuMin, TsIso,
   TsUsShortSec, TsUsShortMin, TsUsShortSecNoComma, TsUsShortMinNoComma}

\* C3: a bracketed line whose timestamp is in one of the listed format
\* classes is resolved to a timestamp and yields a record.
C3_ListedFormatsYieldRecord ==
  Parsed =>
    \A b \in ListedBrackets :
       content = MkLine(b, Alice, Hi) => Len(chat_data[1].messages) = 1

\* C4: no record is emitted for a line whose body holds, in any casing, a
\* phrase of the system-phrase set.
C4_SystemPhrasesExcluded ==
  Parsed =>
    \A k \in 1..Len(chat_data[1].messages) :
       ~HoldsSystemPhrase(chat_data[1].messages[k].content)

\* The kind the ordered rule list gives: system phrase, media-omitted
\* marker, deletion marker, else text
KindByRuleList(body) ==
  IF HoldsSystemPhrase(body) THEN "system"
  ELSE IF HoldsMediaMarker(body) THEN "media"
  ELSE IF HoldsDeletionMarker(body) THEN "deleted"
  ELSE "text"

\* C5: _determine_message_type gives every body the kind of the first rule
\* that applies, in the order system phrase, media-omitted marker, deletion
\* marker, else text.
C5_FirstMatchWins ==
  \A body \in CleanBodies \cup SystemBodies :
     content = MkLine(TsUsShortSec, Bob, body)
     => determine_message_type(body) = KindByRuleList(body)

\* The records self._parse_message_line gives for the lines of the decoded
\* text, one after the other
RECURSIVE RecordsFrom(_, _)
RecordsFrom(lines, k) ==
  IF k > Len(lines) THEN <<>>
  ELSE ParsedLine(Strip(lines[k])) \o RecordsFrom(lines, k + 1)

\* C6: the records of parse_chat are the records of the lines that give
\* one, once each and in file order, whatever their timestamps.
C6_LineOrderPreserved ==
  Parsed => chat_data[1].messages = RecordsFrom(SplitOn(Decode(content).text, "\n"), 1)

\* C6's case: two records, the first with the later timestamp
C6_Witness ==
  /\ Parsed
  /\ Len(chat_data[1].messages) = 2
  /\ TupleLess(chat_data[1].messages[2].timestamp, chat_data[1].messages[1].timestamp)

\* C7: every record of parse_chat has a timestamp and a non-empty
\* participant name, and no empty name is among the participants.
C7_ParticipantNotEmpty ==
  Parsed =>
    /\ \A k \in 1..Len(chat_data[1].messages) :
         /\ Len(chat_data[1].messages[k].timestamp) = 6
         /\ chat_data[1].messages[k].participant # <<>>
    /\ <<>> \notin chat_data[1].participants

\* The timestamp a matched line resolves to, whether or not the line is
\* then left out as a system message
EncounteredOfMatch(line, match) ==
  IF match = <<>> THEN <<>>
  ELSE IF \A i \in (match[1]["end"] + 1)..Len(line) : line[i] # ":" THEN <<>>
  ELSE parse_timestamp(Group(line, match[1], "1") \o <<" ">> \o Group(line, match[1], "2"))

EncounteredOfLine(line) ==
  PickFirst({[ord |-> k, r |-> EncounteredOfMatch(line, re_match(date_patterns[k], line))] :
             k \in 1..Len(date_patterns)})

\* The timestamps of all the lines that resolve to one, system lines included
EncounteredTimes ==
  LET ls == SplitOn(Decode(content).text, "\n")
  IN  {EncounteredOfLine(Strip(ls[k]))[1] :
         k \in {j \in 1..Len(ls) : EncounteredOfLine(Strip(ls[j])) # <<>>}}

\* The timestamps of the records
RecordTimes ==
  {chat_data[1].messages[k].timestamp : k \in 1..Len(chat_data[1].messages)}

Earliest(times) == CHOOSE t \in times : \A u \in times : ~TupleLess(u, t)

Latest(times) == CHOOSE t \in times : \A u \in times : ~TupleLess(t, u)

\* C8 as stated: date_range_start and date_range_end are the earliest and
\* the latest timestamp over all the lines that gave a valid timestamp, the
\* lines left out as system messages included.
C8_RangeOverEncountered ==
  (Parsed /\ EncounteredTimes # {}) =>
    /\ chat_data[1].date_range_start = <<Earliest(EncounteredTimes)>>
    /\ chat_data[1].date_range_end = <<Latest(EncounteredTimes)>>

\* C8: date_range_start and date_range_end are the earliest and the latest
\* timestamp of the records parse_chat returns, whatever the order of the
\* lines, and None when there is no record; a line left out as a system
\* message does not widen the range.
C8_RangeOverRecords ==
  Parsed =>
    IF chat_data[1].messages = <<>>
    THEN chat_data[1].date_range_start = <<>> /\ chat_data[1].date_range_end = <<>>
    ELSE /\ chat_data[1].date_range_start = <<Earliest(RecordTimes)>>
         /\ chat_data[1].date_range_end = <<Latest(RecordTimes)>>

\* C8's case: a transcript with a record and a system line dated before it
C8_Witness ==
  /\ Parsed
  /\ chat_data[1].messages # <<>>
  /\ \E t \in EncounteredTimes : TupleLess(t, chat_data[1].date_range_start[1])

\* Lines that cannot be classified: no bracket, no colon after the bracket,
\* an impossible date, only blanks
DroppedLines == {Continuation, NoColon, Blank, MkLine(TsBadDay, Alice, Hi)}

\* C9: parse_chat returns for every byte content: a line that matches no
\* bracket pattern, has no colon or has an unparseable timestamp gives no
\* record and no error, and a transcript of such lines gives no message,
\* no participant and a None date range.
C9_ParseChatTotal ==
  /\ (pc # "start" /\ ValidFileType(filename)) => (Parsed /\ ~chat_data[1].raised)
  /\ Parsed =>
       Len(chat_data[1].messages)
         <= Cardinality({k \in 1..Len(WrittenLines) : WrittenLines[k] \notin DroppedLines})
  /\ (Parsed /\ \A k \in 1..Len(WrittenLines) : WrittenLines[k] \in DroppedLines) =>
       /\ chat_data[1].messages = <<>>
       /\ chat_data[1].participants = {}
       /\ chat_data[1].date_range_start = <<>>
       /\ chat_data[1].date_range_end = <<>>

\* C9's case: a committed upload of two lines, neither classifiable, one of
\* them with an impossible date
C9_Witness ==
  /\ Parsed
  /\ content = File(<<Continuation, MkLine(TsBadDay, Alice, Hi)>>)
  /\ chat_data[1].messages = <<>>
  /\ chat[1].message_count = 0

\* The text with every invalid byte replaced by U+FFFD
Replaced(bytes) ==
  [i \in 1..Len(bytes) |-> IF bytes[i] = BadByte THEN "U+FFFD" ELSE bytes[i]]

\* The text without the invalid bytes
Dropped(bytes) == SelectSeq(bytes, LAMBDA u : u # BadByte)

\* C10 as stated: an invalid UTF-8 sequence of the upload is represented by
\* a replacement character in the content and the char_count of its record,
\* and the transcript is produced without an error.
C10_InvalidBytesReplaced ==
  \A body \in PlainBodies :
     (Parsed /\ content = MkLine(TsUsShortSec, Bob, body)) =>
       /\ Len(chat_data[1].messages) = 1
       /\ chat_data[1].messages[1].content = Strip(Replaced(body))
       /\ chat_data[1].messages[1].char_count = Len(Strip(Replaced(body)))

\* C10: an invalid UTF-8 sequence of the upload is dropped by the decoding:
\* it leaves no character in the content of its record and does not count
\* in char_count, no replacement character appears, and the transcript is
\* produced without an error.
C10_InvalidBytesDropped ==
  /\ (pc # "start" /\ ValidFileType(filename)) => Parsed
  /\ \A body \in PlainBodies :
       (Parsed /\ content = MkLine(TsUsShortSec, Bob, body)) =>
         /\ Len(chat_data[1].messages) = 1
         /\ chat_data[1].messages[1].content = Strip(Dropped(body))
         /\ chat_data[1].messages[1].char_count = Len(Strip(Dropped(body)))
  /\ Parsed =>
       \A k \in 1..Len(chat_data[1].messages) :
          ~Contains(chat_data[1].messages[k].content, <<"U+FFFD">>)

\* C10's case: a committed upload whose one line has an invalid byte inside
\* its body; the record has the six valid characters
C10_Witness ==
  /\ Parsed
  /\ content = MkLine(TsUsShortSec, Bob, WithBadByte)
  /\ Len(chat_data[1].messages) = 1
  /\ chat_data[1].messages[1].char_count = 6

(***************************************************************************)
(* Properties of the analytics                                             *)
(***************************************************************************)

\* The last response is one of operation op
Answered(op) == response # <<>> /\ response[1].op = op

\* C11: the analytics are functions of the stored messages of the chat; in
\* particular get_interaction_metrics, repeated on the same data, returns
\* the same response_times, conversation_starters and longest_pauses,
\* whatever order the storage returns the rows of equal timestamp in.
C11_SameDataSameResult ==
  [][(/\ Answered("get_interaction_metrics")
      /\ response' # <<>>
      /\ response'[1].op = "get_interaction_metrics"
      /\ db_messages' = db_messages)
     => /\ response'[1].result.response_times = response[1].result.response_times
        /\ response'[1].result.conversation_starters
             = response[1].result.conversation_starters
        /\ response'[1].result.longest_pauses = response[1].result.longest_pauses]_vars

\* The buckets of a timeline response
BucketsOf(r) == r.result.timeline

\* The time_group of a granularity in get_timeline_data
TimelineGroup(granularity) ==
  IF granularity = "daily" THEN "date"
  ELSE IF granularity = "weekly" THEN "%Y-W%U" ELSE "%Y-%m"

\* C12: for daily, weekly and monthly, get_timeline_data puts every message
\* of the chat in exactly one bucket: the counts of the buckets add up to
\* the number of messages of the chat, and no bucket has count 0.
C12_BucketsPartitionMessages ==
  (Answered("get_timeline_data") /\ response[1].granularity \in {"daily", "weekly", "monthly"})
  => /\ response[1].result.raised = ""
     /\ SumOf([k \in 1..Len(BucketsOf(response[1])) |->
                 BucketsOf(response[1])[k].message_count]) = Len(db_messages)
     /\ \A k \in 1..Len(BucketsOf(response[1])) : BucketsOf(response[1])[k].message_count > 0
     /\ \A i \in 1..Len(db_messages) :
          Cardinality({k \in 1..Len(BucketsOf(response[1])) :
                         BucketsOf(response[1])[k].period =
                           KeyOf(TimelineGroup(response[1].granularity),
                                 db_messages[i].timestamp)}) = 1

\* C12's case: a weekly timeline of one bucket that holds two messages
C12_Witness ==
  /\ Answered("get_timeline_data")
  /\ response[1].granularity = "weekly"
  /\ Len(db_messages) = 2
  /\ Len(BucketsOf(response[1])) = 1
  /\ BucketsOf(response[1])[1].message_count = 2

\* The days of the week of the dates of the chats, 0 = Sunday: 2 January
\* 2024 was a Tuesday, 1 January a Monday, 31 December 2023 a Sunday
Weekday(t) ==
  IF <<t[1], t[2], t[3]>> = <<2024, 1, 2>> THEN 2
  ELSE IF <<t[1], t[2], t[3]>> = <<2024, 1, 1>> THEN 1
  ELSE IF <<t[1], t[2], t[3]>> = <<2023, 12, 31>> THEN 0
  ELSE 7

\* The matrix of a heatmap response
MatrixOf(r) == IF r.op = "get_activity_heatmap" THEN r.result.matrix ELSE r.result.data

\* The sum of the cells of one day of a matrix
DaySum(matrix, d) == SumOf([h \in 1..24 |-> matrix[d][h - 1]])

C14_WordFrequencyReturns ==
  Answered("get_word_frequency")
  => /\ response[1].result.raised = ""
     /\ Len(response[1].result.words) <= response[1].limit
     /\ \A k \in 1..Len(response[1].result.words) :
          response[1].result.words[k].count > 0

\* The day of a timestamp of the chats, counted from Sunday 31 December 2023
DayNumber(t) ==
  IF <<t[1], t[2], t[3]>> = <<2023, 12, 31>> THEN 0
  ELSE IF <<t[1], t[2], t[3]>> = <<2024, 1, 1>> THEN 1
  ELSE IF <<t[1], t[2], t[3]>> = <<2024, 1, 2>> THEN 2
  ELSE 0 - 1

\* current - previous in seconds
DeltaSeconds(previous, current) ==
  (DayNumber(current.timestamp) - DayNumber(previous.timestamp)) * 86400
  + (current.timestamp[4] - previous.timestamp[4]) * 3600
  + (current.timestamp[5] - previous.timestamp[5]) * 60
  + (current.timestamp[6] - previous.timestamp[6])

\* The adjacent pairs (i - 1, i) of msgs that are responses of sender name
ResponsePairs(msgs, name) ==
  {i \in 2..Len(msgs) :
     /\ msgs[i].sender = name
     /\ msgs[i].sender # msgs[i - 1].sender
     /\ DeltaSeconds(msgs[i - 1], msgs[i]) > 0
     /\ DeltaSeconds(msgs[i - 1], msgs[i]) < 3600}

\* The adjacent pairs (i - 1, i) of msgs that are long pauses
PausePairs(msgs) == {i \in 2..Len(msgs) : DeltaSeconds(msgs[i - 1], msgs[i]) > 14400}

\* The senders of msgs
SendersOf(msgs) == {msgs[i].sender : i \in 1..Len(msgs)}

\* C15: get_interaction_metrics walks the adjacent pairs in timestamp order;
\* a pair is a response sample of the current sender iff the senders differ
\* and 0 < delta < 3600, and a long pause iff delta > 14400; every other
\* pair records nothing and no pair records both.  The pauses are read off
\* longest_pauses, which lists all of them up to ten and ten of them beyond.
C15_ResponseAndPauseWindows ==
  Answered("get_interaction_metrics")
  => /\ response[1].result.raised = ""
     /\ \A name \in SendersOf(response[1].messages) :
          IF ResponsePairs(response[1].messages, name) = {}
          THEN \A k \in 1..Len(response[1].result.response_times) :
                 response[1].result.response_times[k].name # name
          ELSE Cardinality({k \in 1..Len(response[1].result.response_times) :
                 /\ response[1].result.response_times[k].name = name
                 /\ response[1].result.response_times[k].response_count
                      = Cardinality(ResponsePairs(response[1].messages, name))}) = 1
     /\ \A k \in 1..Len(response[1].result.response_times) :
          response[1].result.response_times[k].name \in SendersOf(response[1].messages)
     /\ Len(response[1].result.longest_pauses)
          = IF Cardinality(PausePairs(response[1].messages)) < 10
            THEN Cardinality(PausePairs(response[1].messages)) ELSE 10
     /\ \A k \in 1..Len(response[1].result.longest_pauses) :
          \E i \in PausePairs(response[1].messages) :
            /\ response[1].result.longest_pauses[k].before
                 = response[1].messages[i - 1].timestamp
            /\ response[1].result.longest_pauses[k].after
                 = response[1].messages[i].timestamp
            /\ response[1].result.longest_pauses[k].restarted_by
                 = response[1].messages[i].sender
     /\ \A i \in PausePairs(response[1].messages) :
          \/ Cardinality(PausePairs(response[1].messages)) > 10
          \/ \E k \in 1..Len(response[1].result.longest_pauses) :
               /\ response[1].result.longest_pauses[k].before
                    = response[1].messages[i - 1].timestamp
               /\ response[1].result.longest_pauses[k].after
                    = response[1].messages[i].timestamp
               /\ response[1].result.longest_pauses[k].restarted_by
                    = response[1].messages[i].sender
     /\ SumOf([k \in 1..Len(response[1].result.response_times) |->
                 response[1].result.response_times[k].response_count])
        + Len(response[1].result.longest_pauses) <= Len(response[1].messages) - 1
          \/ Len(response[1].messages) < 2

\* C15's case: Bob answers Alice after one second, which is recorded as his
\* one response and as no pause
C15_Witness ==
  /\ Answered("get_interaction_metrics")
  /\ Len(response[1].messages) = 2
  /\ response[1].messages[1].sender = Alice
  /\ response[1].messages[2].sender = Bob
  /\ DeltaSeconds(response[1].messages[1], response[1].messages[2]) = 1
  /\ Len(response[1].result.response_times) = 1
  /\ response[1].result.response_times[1].response_count = 1
  /\ response[1].result.longest_pauses = <<>>

\* C16: for a chat of fewer than 2 messages get_interaction_metrics returns
\* empty response_times, conversation_starters and longest_pauses, without
\* error.
C16_FewMessagesEmptyMetrics ==
  (Answered("get_interaction_metrics") /\ Len(db_messages) < 2)
  => /\ response[1].result.raised = ""
     /\ response[1].result.response_times = <<>>
     /\ response[1].result.conversation_starters = <<>>
     /\ response[1].result.longest_pauses = <<>>

\* C16's case: the interaction metrics of a chat of one message
C16_Witness ==
  /\ Answered("get_interaction_metrics")
  /\ Len(db_messages) = 1
  /\ Len(response[1].messages) = 1
  /\ response[1].result.conversation_starters = <<>>

\* C17: for a chat of zero messages get_basic_stats returns total_messages
\* 0, duration_days 0, avg_messages_per_day 0, a null date range and an
\* empty histogram of kinds, and raises no error.
C17_EmptyChatBasicStats ==
  (Answered("get_basic_stats") /\ db_messages = <<>>)
  => /\ response[1].result.raised = ""
     /\ response[1].result.total_messages = 0
     /\ response[1].result.duration_days = 0
     /\ response[1].result.avg_messages_per_day = 0
     /\ response[1].result.date_range.start = <<>>
     /\ response[1].result.date_range.end = <<>>
     /\ DOMAIN response[1].result.message_types = {}

\* C17's case: the basic statistics of the chat stored from an empty file
C17_Witness ==
  /\ Answered("get_basic_stats")
  /\ content = <<>>
  /\ db_messages = <<>>
  /\ response[1].result.participant_count = 0

\* C18: get_timeline_data and get_activity_over_time, called with a
\* granularity outside daily, weekly and monthly, fail with the error for an
\* invalid granularity: they return no buckets and raise no other error.
C18_InvalidGranularityRejected ==
  ((Answered("get_timeline_data") \/ Answered("get_activity_over_time"))
   /\ response[1].granularity \notin {"daily", "weekly", "monthly"})
  => response[1].result.raised = "ValueError"

\* The number of the parsed messages of the chat sent by name
SentBy(name) ==
  Cardinality({i \in 1..Len(chat_data[1].messages) :
                 chat_data[1].messages[i].participant = name})

\* C19: for every participant of a chat, the message_count that
\* store_chat_data stored and the message_count that
\* get_participant_statistics reports both equal the number of messages of
\* the chat sent by that participant, so the counts of the participants add
\* up to the number of messages of the chat.
C19_ParticipantCountsMatchMessages ==
  /\ \A p \in db_participants : p.message_count = SentBy(p.name)
  /\ Answered("get_participant_statistics")
     => /\ response[1].result.raised = ""
        /\ Len(response[1].result.results) = Cardinality(db_participants)
        /\ \A p \in db_participants :
             Cardinality({k \in 1..Len(response[1].result.results) :
                            /\ response[1].result.results[k].name = p.name
                            /\ response[1].result.results[k].message_count = SentBy(p.name)}) = 1
        /\ SumOf([k \in 1..Len(response[1].result.results) |->
                    response[1].result.results[k].message_count]) = Len(db_messages)

\* C19's case: the statistics of a chat of two messages of one participant
C19_Witness ==
  /\ Answered("get_participant_statistics")
  /\ Len(db_messages) = 2
  /\ Len(response[1].result.results) = 1
  /\ response[1].result.results[1].message_count = 2
  /\ \E p \in db_participants : p.message_count = 2

\* fmt has the directive of the seconds
HasSeconds(fmt) == \E i \in 1..Len(fmt) : fmt[i] = "%S"

\* The seconds-inclusive counterpart of a seconds-omitted format: the same
\* fields, year width and separators, with ":%S" after the minutes
WithSeconds(fmt) ==
  LET at == CHOOSE i \in 1..Len(fmt) : fmt[i] = "%M"
  IN  SubSeq(fmt, 1, at) \o <<":", "%S">> \o SubSeq(fmt, at + 1, Len(fmt))

\* The timestamp string written between the brackets
Written(bracket) == SubSeq(bracket, 2, Len(bracket) - 1)

\* The same string without the comma after the date
WithoutComma(str) == SelectSeq(str, LAMBDA c : c # ",")

\* The positions of the colons of str
Colons(str) == {i \in 1..Len(str) : str[i] = ":"}

\* The seconds written in a string of two colons: the two digits after the
\* second colon
WrittenSeconds(str) ==
  Num(str, (CHOOSE i \in Colons(str) : \A j \in Colons(str) : j <= i) + 1, 2)

\* The formats of the list that parse the whole of str
Accepting(str) == {k \in 1..Len(formats) : Strptime(str, formats[k]) # <<>>}

\* parse_timestamp resolves str by the first format of the list that parses
\* the whole of it, agrees with every seconds-inclusive format that parses
\* it, and keeps the seconds written
ResolvedBySpecific(str) ==
  /\ Accepting(str) = {} => parse_timestamp(str) = <<>>
  /\ \A k \in Accepting(str) :
       /\ (\A j \in Accepting(str) : k <= j) =>
            parse_timestamp(str) = Strptime(str, formats[k])
       /\ HasSeconds(formats[k]) => parse_timestamp(str) = Strptime(str, formats[k])
       /\ Cardinality(Colons(str)) = 2 =>
            /\ HasSeconds(formats[k])
            /\ parse_timestamp(str)[1][6] = WrittenSeconds(str)

\* C20: in the format list of _parse_timestamp every seconds-omitted format
\* comes after its seconds-inclusive counterpart, and the resolver returns
\* the result of the first format of the list that parses the whole string:
\* no string is resolved by a looser format when a more specific one accepts
\* it, and no field is cut off.
C20_SpecificFormatsFirst ==
  /\ \A k \in 1..Len(formats) :
       ~HasSeconds(formats[k]) => \E j \in 1..(k - 1) : formats[j] = WithSeconds(formats[k])
  /\ \A b \in Brackets :
       content = MkLine(b, Alice, Hi)
       => /\ ResolvedBySpecific(Written(b))
          /\ ResolvedBySpecific(WithoutComma(Written(b)))

\* C20's case: the upload of a line stamped 12/31/23, 11:59:59 PM, a string
\* the third format resolves with its seconds
C20_Witness ==
  /\ Parsed
  /\ content = MkLine(TsEarly, Alice, Hi)
  /\ Accepting(Written(TsEarly)) = {3}
  /\ parse_timestamp(Written(TsEarly)) = <<(<<2023, 12, 31, 23, 59, 59>>)>>
  /\ Len(chat_data[1].messages) = 1
  /\ chat_data[1].messages[1].timestamp = <<2023, 12, 31, 23, 59, 59>>

\* The text of a line after its first closing bracket
AfterBracket(line) ==
  LET closing == {i \in 1..Len(line) : line[i] = "]"}
  IN  IF closing = {} THEN <<>>
      ELSE SubSeq(line, (CHOOSE i \in closing : \A j \in closing : i <= j) + 1, Len(line))

\* The number of colons of str before position i
ColonsBefore(str, i) == Cardinality({j \in 1..(i - 1) : str[j] = ":"})

\* C21: the remainder of a line after its bracket is split on the first
\* colon only: the participant is the text before it and the content the
\* text after it, colons of the body included; a matched line without a
\* colon in its remainder gives no record.
C21_SplitOnFirstColon ==
  (Parsed /\ content \in RichLines)
  => /\ Colons(AfterBracket(Decode(content).text)) = {}
          => chat_data[1].messages = <<>>
     /\ Len(chat_data[1].messages) <= 1
     /\ \A k \in 1..Len(chat_data[1].messages) :
          \E i \in Colons(AfterBracket(Decode(content).text)) :
            /\ ColonsBefore(AfterBracket(Decode(content).text), i) = 0
            /\ chat_data[1].messages[k].participant
                 = Strip(SubSeq(AfterBracket(Decode(content).text), 1, i - 1))
            /\ chat_data[1].messages[k].content
                 = Strip(SubSeq(AfterBracket(Decode(content).text), i + 1,
                                Len(AfterBracket(Decode(content).text))))

\* C21's case: Bob's line with a URL and a time in its body, whose colons
\* stay in the content
C21_Witness ==
  /\ Parsed
  /\ content = MkLine(TsUsShortSec, Bob, LinkAndTime)
  /\ Len(chat_data[1].messages) = 1
  /\ chat_data[1].messages[1].participant = Bob
  /\ chat_data[1].messages[1].content = LinkAndTime
  /\ Cardinality(Colons(LinkAndTime)) = 2

\* line, stripped, starts with a bracket
StartsWithBracket(line) == Strip(line) # <<>> /\ Strip(line)[1] = "["

\* The decoded text of the upload, line by line
DecodedLines == SplitOn(Decode(content).text, "\n")

\* C22: a line that does not start with a timestamp bracket gives no record
\* and changes nothing: the records with their content, char_count and
\* word_count, the participants and the date range are those of the same
\* transcript without that line.
C22_ContinuationLinesDropped ==
  (Parsed /\ \E k \in 1..Len(DecodedLines) :
               Strip(DecodedLines[k]) # <<>> /\ ~StartsWithBracket(DecodedLines[k]))
  => chat_data[1] =
       ParseDecoded([raised |-> FALSE,
                     text |-> File(SelectSeq(DecodedLines, StartsWithBracket))])

\* C22's case: Alice's message followed by a second line of text
C22_Witness ==
  /\ Parsed
  /\ content = File(<<MkLine(TsUsShortSec, Alice, HelloWorld), Continuation>>)
  /\ Len(chat_data[1].messages) = 1
  /\ chat_data[1].messages[1].content = HelloWorld
  /\ chat_data[1].messages[1].char_count = 11
  /\ chat_data[1].messages[1].word_count = 2
  /\ chat_data[1].participants = {Alice}

\* The place in the transcript of the first message of name
FirstEncounter(name) ==
  CHOOSE i \in 1..Len(chat_data[1].messages) :
    /\ chat_data[1].messages[i].participant = name
    /\ \A j \in 1..(i - 1) : chat_data[1].messages[j].participant # name

\* C23: get_participant_statistics lists the participants by descending
\* message_count, and participants of equal message_count in the order in
\* which the transcript first names them.
C23_TiesInEncounterOrder ==
  Answered("get_participant_statistics")
  => \A k \in 1..(Len(response[1].result.results) - 1) :
       \/ response[1].result.results[k].message_count
            > response[1].result.results[k + 1].message_count
       \/ /\ response[1].result.results[k].message_count
               = response[1].result.results[k + 1].message_count
          /\ FirstEncounter(response[1].result.results[k].name)
               < FirstEncounter(response[1].result.results[k + 1].name)

\* The seconds from the midnight that starts 31 December 2023 to t
ClockSeconds(t) == DayNumber(t) * 86400 + t[4] * 3600 + t[5] * 60 + t[6]

\* The timestamps of the stored messages
StoredTimes == {db_messages[i].timestamp : i \in 1..Len(db_messages)}

\* The whole days from the earliest to the latest stored message
WholeDays ==
  (ClockSeconds(Latest(StoredTimes)) - ClockSeconds(Earliest(StoredTimes))) \div 86400

\* The kinds of the messages
Kinds == {"text", "media", "deleted", "system"}

\* C24: for a chat of at least one message get_basic_stats returns
\* duration_days = whole days between the earliest and the latest message + 1,
\* at least 1 and 1 when all messages are of one day, avg_messages_per_day =
\* total_messages / duration_days (to the hundredth, never above
\* total_messages), and a histogram of kinds that adds up to total_messages.
C24_BasicStatsOfMessages ==
  (Answered("get_basic_stats") /\ db_messages # <<>>)
  => /\ response[1].result.total_messages = Len(db_messages)
     /\ response[1].result.duration_days = WholeDays + 1
     /\ response[1].result.duration_days >= 1
     /\ Cardinality({DayNumber(t) : t \in StoredTimes}) = 1
          => response[1].result.duration_days = 1
     /\ 2 * (100 * response[1].result.total_messages
             - response[1].result.avg_messages_per_day * response[1].result.duration_days)
          <= response[1].result.duration_days
     /\ 2 * (response[1].result.avg_messages_per_day * response[1].result.duration_days
             - 100 * response[1].result.total_messages)
          <= response[1].result.duration_days
     /\ response[1].result.avg_messages_per_day <= 100 * response[1].result.total_messages
     /\ DOMAIN response[1].result.message_types \subseteq Kinds
     /\ SumOf([k \in 1..Len(db_messages) |->
                 IF \A j \in 1..(k - 1) :
                      db_messages[j].message_type # db_messages[k].message_type
                 THEN response[1].result.message_types[db_messages[k].message_type]
                 ELSE 0]) = response[1].result.total_messages
     /\ \A t \in DOMAIN response[1].result.message_types :
          \E k \in 1..Len(db_messages) : db_messages[k].message_type = t

\* C24's case: two messages 34 hours apart, on 31 December and 2 January:
\* one whole day, so two days and one message a day
C24_Witness ==
  /\ Answered("get_basic_stats")
  /\ Len(db_messages) = 2
  /\ WholeDays = 1
  /\ response[1].result.duration_days = 2
  /\ response[1].result.avg_messages_per_day = 100

\* The conversations name starts in msgs: the first message, and every
\* message after a long pause
StartsBy(msgs, name) ==
  (IF msgs[1].sender = name THEN 1 ELSE 0)
  + Cardinality({i \in PausePairs(msgs) : msgs[i].sender = name})

\* C25: in get_interaction_metrics on at least 2 messages, the
\* conversation-starter count of a participant is 1 if they sent the first
\* message, plus the number of long pauses (delta > 14400) after which they
\* sent the next message; the counts add up to 1 + the number of long
\* pauses, and whoever restarted after a pause is among the starters.
C25_StartersCountPauses ==
  (Answered("get_interaction_metrics") /\ Len(response[1].messages) >= 2)
  => /\ \A name \in SendersOf(response[1].messages) :
          IF StartsBy(response[1].messages, name) = 0
          THEN \A k \in 1..Len(response[1].result.conversation_starters) :
                 response[1].result.conversation_starters[k].name # name
          ELSE Cardinality({k \in 1..Len(response[1].result.conversation_starters) :
                 /\ response[1].result.conversation_starters[k].name = name
                 /\ response[1].result.conversation_starters[k].count
                      = StartsBy(response[1].messages, name)}) = 1
     /\ \A k \in 1..Len(response[1].result.conversation_starters) :
          response[1].result.conversation_starters[k].name
            \in SendersOf(response[1].messages)
     /\ SumOf([k \in 1..Len(response[1].result.conversation_starters) |->
                 response[1].result.conversation_starters[k].count])
          = 1 + Cardinality(PausePairs(response[1].messages))
     /\ SumOf([k \in 1..Len(response[1].result.conversation_starters) |->
                 response[1].result.conversation_starters[k].count])
          >= 1 + Len(response[1].result.longest_pauses)
     /\ \A j \in 1..Len(response[1].result.longest_pauses) :
          \E k \in 1..Len(response[1].result.conversation_starters) :
            response[1].result.conversation_starters[k].name
              = response[1].result.longest_pauses[j].restarted_by

\* C25's case: Alice writes on 31 December and again on 2 January: she
\* starts both conversations
C25_Witness ==
  /\ Answered("get_interaction_metrics")
  /\ Len(response[1].messages) = 2
  /\ Len(response[1].result.longest_pauses) = 1
  /\ response[1].result.longest_pauses[1].restarted_by = Alice
  /\ response[1].result.conversation_starters = <<[name |-> Alice, count |-> 2]>>

\* The response samples of name in msgs, in the order of the pairs
RECURSIVE SamplesOf(_, _, _)
SamplesOf(msgs, name, i) ==
  IF i > Len(msgs) THEN <<>>
  ELSE (IF i \in ResponsePairs(msgs, name)
        THEN <<DeltaSeconds(msgs[i - 1], msgs[i])>> ELSE <<>>)
       \o SamplesOf(msgs, name, i + 1)

\* The median of the samples in tenths: the middle one of an odd number,
\* the mean of the two middle ones of an even number
MedianTenths(samples) ==
  IF Len(samples) % 2 = 1
  THEN 10 * SortSeq(samples, <)[(Len(samples) + 1) \div 2]
  ELSE 5 * (SortSeq(samples, <)[Len(samples) \div 2]
            + SortSeq(samples, <)[(Len(samples) \div 2) + 1])

\* C26: for every sender with a response sample get_interaction_metrics
\* reports response_count = the number of samples, avg_seconds = their mean
\* and median_seconds = their median, for odd and even numbers of samples.
C26_MeanAndMedianOfSamples ==
  Answered("get_interaction_metrics")
  => \A k \in 1..Len(response[1].result.response_times) :
       /\ response[1].result.response_times[k].response_count
            = Len(SamplesOf(response[1].messages, response[1].result.response_times[k].name, 2))
       /\ response[1].result.response_times[k].response_count > 0
       /\ response[1].result.response_times[k].avg_seconds
            = Round1(SumOf(SamplesOf(response[1].messages,
                                     response[1].result.response_times[k].name, 2)),
                     response[1].result.response_times[k].response_count)
       /\ response[1].result.response_times[k].median_seconds
            = MedianTenths(SamplesOf(response[1].messages,
                                     response[1].result.response_times[k].name, 2))

\* The indexes of the pauses of msgs that the list lists
ListedPauses(msgs, list) ==
  {i \in PausePairs(msgs) :
     \E k \in 1..Len(list) : /\ list[k].before = msgs[i - 1].timestamp
                              /\ list[k].after = msgs[i].timestamp}

\* C27: longest_pauses holds min(10, number of long pauses) entries in
\* descending order of duration, and no pause left out of it is strictly
\* longer, in seconds, than a pause it lists.
C27_LongestPausesAreLongest ==
  Answered("get_interaction_metrics")
  => /\ response[1].result.raised = ""
     /\ Len(response[1].result.longest_pauses)
          = IF Cardinality(PausePairs(response[1].messages)) < 10
            THEN Cardinality(PausePairs(response[1].messages)) ELSE 10
     /\ \A k \in 1..(Len(response[1].result.longest_pauses) - 1) :
          response[1].result.longest_pauses[k].duration_hours
            >= response[1].result.longest_pauses[k + 1].duration_hours
     /\ \A i \in PausePairs(response[1].messages)
                  \ ListedPauses(response[1].messages, response[1].result.longest_pauses) :
          \A j \in ListedPauses(response[1].messages, response[1].result.longest_pauses) :
            DeltaSeconds(response[1].messages[i - 1], response[1].messages[i])
              <= DeltaSeconds(response[1].messages[j - 1], response[1].messages[j])

RecordNames == {chat_data[1].messages[i].participant : i \in 1..Len(chat_data[1].messages)}

\* C29: the participants of a result of parse_chat are exactly the
\* participant names of its records, each once; so store_chat_data stores
\* one participant per name, none with message_count 0, and every stored
\* message carries the id of a stored participant.
C29_ParticipantsAreRecordNames ==
  /\ Parsed => chat_data[1].participants = RecordNames
  /\ pc = "done"
     => /\ {p.name : p \in db_participants} = RecordNames
        /\ Cardinality(db_participants) = Cardinality(RecordNames)
        /\ \A p \in db_participants : p.message_count >= 1
        /\ \A i \in 1..Len(db_messages) :
             \E p \in db_participants :
               /\ p.id = db_messages[i].participant_id
               /\ p.name = chat_data[1].messages[i].participant

\* C29's case: a stored transcript of two records of two participants
C29_Witness ==
  /\ pc = "done"
  /\ Len(chat_data[1].messages) = 2
  /\ Cardinality(chat_data[1].participants) = 2
  /\ Cardinality(db_participants) = 2
  /\ Len(db_messages) = 2

\* C30: whenever a Chat row is committed, and so visible to list_uploads and
\* to the analysis requests, the stored messages and participants of the
\* chat number chat.message_count and chat.participant_count.
C30_VisibleChatMatchesRows ==
  chat # <<>>
  => /\ Len(db_messages) = chat[1].message_count
     /\ Cardinality(db_participants) = chat[1].participant_count

====
